---- MODULE Spec2Model ----
(***************************************************************************)
(* Staged batch pipeline of pjbaron/LinguisticEvolution:                   *)
(*   - retry_with_exponential_backoff   (src/refine_batch.py,              *)
(*                                       src/proposition_pipeline.py,      *)
(*                                       src/random_propositions.py)       *)
(*   - BatchRefiner                     (src/refine_batch.py)              *)
(*   - PropositionController            (src/control.py)                   *)
(*                                                                         *)
(* Durations are integers in hundredths of a second (1.0 s = 100), so that *)
(* delay * (1 + randbelow(100) / 100) is the integer delay * (100 + u)     *)
(* \div 100 for the whole-second delays used here.                         *)
(***************************************************************************)
EXTENDS Integers, Sequences, FiniteSets, TLC

VARIABLES
    cfg,        \* keyword arguments of retry_with_exponential_backoff
    script,     \* what the wrapped func does on its 1st, 2nd, ... invocation
    draws,      \* what secrets.randbelow(100) returns on its 1st, 2nd, ... call
    out,        \* how wrapper(*args) ended: returned / raised, with its trace
    rpc,        \* "ready" before wrapper is called, "done" after it ended
    fs,         \* the directories: whether each exists, and its files
    pre,        \* fs as the last operation that writes found it
    ops,        \* the operations so far: arguments, how each ended, what it did
    spc,        \* "ready", "written" after an operation that writes, "done"
    ctl         \* PropositionController.run: its position, its locals, the
                \* batches that failed so far and the directories as it found them

retryVars == <<cfg, script, draws, out, rpc>>
storeVars == <<fs, pre, ops, spc>>
ctlVars == <<ctl>>
vars == <<cfg, script, draws, out, rpc, fs, pre, ops, spc, ctl>>

\* ------------------------------------------------------------------ bounds

\* largest max_retries the wrapper is configured with
MaxRetries == 3

\* longest list a batch file found on disk holds
MaxItems == 3

\* self.batch_size, scaled down from the controller's 10
BatchSize == 2

\* self.target_total, scaled down from the controller's 500
TargetTotal == 4

\* most batches that fail during one run of the controller
MaxFailures == 1

\* ------------------------------------------------------- retry: the inputs

\* initial_delay values, hundredths of a second (1.0 s is the default)
InitialDelays == {100, 300}

\* exponential_base values (2.0 is the default)
ExponentialBases == {2, 3}

\* values secrets.randbelow(100) may return: the two ends of range(100) and
\* one value between
JitterDraws == {0, 37, 99}

\* values the remote call may return
Responses == {"respA", "respB"}

\* What one invocation of func does: it returns a value, or raises
\* RateLimitError, an APIError that is no RateLimitError, or an exception
\* that neither except clause of the wrapper names.
Outcomes ==
    [kind : {"ok"}, val : Responses]
        \cup [kind : {"RateLimitError", "APIError", "Exception"}, val : {"exc"}]

\* the element of a set of one element: Only({Then(x) : x \in {value}}) is
\* Then of `value`, with `value` worked out once, as an assignment to a local
\* variable does
Only(S) == CHOOSE y \in S : TRUE

Max(a, b) == IF a >= b THEN a ELSE b

\* ------------------------------------------------------ retry: the wrapper

\* mutant of ActualDelay: the jitter factor is 1 + randbelow(100) / 50
ActualDelay_WideJitter(c, delay, u) ==
    IF c.jitter THEN (delay * (100 + 2 * u)) \div 100 ELSE delay

\* actual_delay = delay * (1 + (secrets.randbelow(100) / 100)) if jitter else delay
ActualDelay(c, delay, u) ==
    IF c.jitter THEN (delay * (100 + u)) \div 100 ELSE delay

\* mutant of NextDelay: delay += exponential_base
NextDelay_Additive(c, delay) == delay + c.exponential_base

\* delay *= exponential_base
NextDelay(c, delay) == delay * c.exponential_base

\* mutant of IsLastAttempt: the comparison is off by one
IsLastAttempt_OffByOne(c, attempt) == attempt = c.max_retries

\* `if attempt == max_retries - 1: ... raise` of both except clauses
IsLastAttempt(c, attempt) == attempt = c.max_retries - 1

\* mutant of IsRetried: the `except APIError` clause is missing
IsRetried_RateLimitOnly(kind) == kind = "RateLimitError"

\* mutant of IsRetried: a bare `except Exception` retries everything
IsRetried_Everything(kind) == kind # "ok"

\* The except clauses of the wrapper: RateLimitError and APIError are handled
\* (retried), anything else leaves the try statement at once.
IsRetried(kind) == kind \in {"RateLimitError", "APIError"}

\* The object the n-th invocation of func returns or raises. A remote that is
\* asked more often than its script is long keeps answering as it last did.
OutcomeOf(sc, n) ==
    LET o == IF n <= Len(sc) THEN sc[n] ELSE sc[Len(sc)]
    IN  [kind |-> o.kind, val |-> o.val, at |-> n]

\* The i-th value secrets.randbelow(100) returns
DrawOf(dr, i) == IF i <= Len(dr) THEN dr[i] ELSE 0

\* The state wrapper(*args) starts in: delay = initial_delay, nothing done yet.
WrapperStart(c) ==
    [delay |-> c.initial_delay, calls |-> 0, slept |-> <<>>, log |-> <<>>,
     events |-> <<>>, after_loop |-> FALSE]

\* func(*args, **kwargs): the next invocation of the wrapped call
Invoke(st) ==
    [st EXCEPT !.calls = @ + 1,
               !.events = Append(@, [ev |-> "call", n |-> st.calls + 1])]

\* wrapper ends: `return func(...)` or an exception leaving it; `at` is the
\* invocation whose value or exception the caller receives
Finish(st, status, o) ==
    [status |-> status, val |-> o.val, kind |-> o.kind, at |-> o.at,
     calls |-> st.calls, delay |-> st.delay, slept |-> st.slept,
     log |-> st.log, events |-> st.events, after_loop |-> st.after_loop]

\* the for statement is left without a return or a raise: what follows is the
\* `return func(*args, **kwargs)` after the loop
AfterLoop(st) == [st EXCEPT !.after_loop = TRUE]

\* print("[ERROR] ... after {max_retries} attempts"); raise
LogError(st, kind) ==
    [st EXCEPT !.log = Append(@, [level |-> "ERROR", kind |-> kind]),
               !.events = Append(@, [ev |-> "error", n |-> st.calls])]

\* mutant of Backoff: the warning is printed after the sleep
Backoff_SleepsFirst(c, st, kind, attempt, u) ==
    LET actual_delay == ActualDelay(c, st.delay, u) IN
    [st EXCEPT
        !.log = Append(@, [level |-> "WARN", kind |-> kind,
                           delay |-> actual_delay, retry |-> attempt + 1]),
        !.slept = Append(@, actual_delay),
        !.events = @ \o <<[ev |-> "sleep", n |-> actual_delay],
                          [ev |-> "warn", n |-> actual_delay]>>,
        !.delay = NextDelay(c, st.delay)]

\* actual_delay = ...; print("[WARN] ..."); time.sleep(actual_delay);
\* delay *= exponential_base
Backoff(c, st, kind, attempt, u) ==
    LET actual_delay == ActualDelay(c, st.delay, u) IN
    [st EXCEPT
        !.log = Append(@, [level |-> "WARN", kind |-> kind,
                           delay |-> actual_delay, retry |-> attempt + 1]),
        !.slept = Append(@, actual_delay),
        !.events = @ \o <<[ev |-> "warn", n |-> actual_delay],
                          [ev |-> "sleep", n |-> actual_delay]>>,
        !.delay = NextDelay(c, st.delay)]

\* for attempt in range(max_retries): try / except / except, then the
\* `return func(*args, **kwargs)` after the loop
RECURSIVE WrapperLoop(_, _, _, _, _)
WrapperLoop(c, sc, dr, attempt, st) ==
    LET \* what follows the invocation, st1 being the state after it
        Handle(st1) ==
            LET o == OutcomeOf(sc, st1.calls)
            IN  IF attempt >= c.max_retries
                THEN \* after the loop: the call is outside any try statement
                     Finish(AfterLoop(st1),
                            IF o.kind = "ok" THEN "returned" ELSE "raised", o)
                ELSE IF o.kind = "ok"
                THEN Finish(st1, "returned", o)
                ELSE IF IsRetried(o.kind)
                THEN IF IsLastAttempt(c, attempt)
                     THEN Finish(LogError(st1, o.kind), "raised", o)
                     ELSE WrapperLoop(c, sc, dr, attempt + 1,
                                      Backoff(c, st1, o.kind, attempt,
                                              DrawOf(dr, Len(st1.slept) + 1)))
                ELSE Finish(st1, "raised", o)
    IN  Only({Handle(st1) : st1 \in {Invoke(st)}})

\* wrapper(*args, **kwargs)
Wrapper(c, sc, dr) == WrapperLoop(c, sc, dr, 0, WrapperStart(c))

\* ------------------------------------------------------ retry: the machine

NoOut == [status |-> "none"]

\* no controller runs
NoCtl == [pc |-> "off"]

RetryConfigs ==
    [max_retries : 0..MaxRetries, initial_delay : InitialDelays,
     exponential_base : ExponentialBases, jitter : BOOLEAN]

\* func is invoked at most max(1, max_retries) times and randbelow at most
\* max_retries - 1 times: the scripts are that long.
ScriptsFor(c) == [1..Max(1, c.max_retries) -> Outcomes]

DrawsFor(c) ==
    IF c.jitter THEN [1..Max(0, c.max_retries - 1) -> JitterDraws]
    ELSE {[i \in 1..Max(0, c.max_retries - 1) |-> 0]}

RetryInit ==
    /\ cfg \in RetryConfigs
    /\ script = <<>>
    /\ draws = <<>>
    /\ out = NoOut
    /\ rpc = "ready"
    /\ fs = <<>>
    /\ pre = <<>>
    /\ ops = <<>>
    /\ spc = "off"
    /\ ctl = NoCtl

\* One call of the decorated function against a remote that behaves as `sc`.
CallWrapper ==
    /\ rpc = "ready"
    /\ \E sc \in ScriptsFor(cfg), dr \in DrawsFor(cfg) :
        /\ script' = sc
        /\ draws' = dr
        /\ out' = Wrapper(cfg, sc, dr)
    /\ rpc' = "done"
    /\ UNCHANGED cfg
    /\ UNCHANGED <<storeVars, ctlVars>>

RetryNext == CallWrapper

SpecRetry == RetryInit /\ [][RetryNext]_vars

\* ------------------------------------------------------- store: file names

\* A file name is the sequence of its characters' code points, so that
\* sorted() compares two names as Python compares str.
BatchPrefix == <<98, 97, 116, 99, 104, 95>>          \* "batch_"
JsonSuffix == <<46, 106, 115, 111, 110>>             \* ".json"
NotesName == <<110, 111, 116, 101, 115, 46, 116, 120, 116>>   \* "notes.txt"

\* str(n) for n >= 0
RECURSIVE Digits(_)
Digits(n) == IF n < 10 THEN <<48 + n>> ELSE Append(Digits(n \div 10), 48 + (n % 10))

\* f"{n:03d}": zero-padded to at least three digits
RECURSIVE ZeroPad(_, _)
ZeroPad(ds, width) == IF Len(ds) >= width THEN ds ELSE ZeroPad(<<48>> \o ds, width)

\* f"batch_{batch_num:03d}.json"
BatchFileName(batch_num) == BatchPrefix \o ZeroPad(Digits(batch_num), 3) \o JsonSuffix

\* glob("*.json"): the name ends in ".json"
IsJsonName(name) ==
    /\ Len(name) >= Len(JsonSuffix)
    /\ SubSeq(name, Len(name) - Len(JsonSuffix) + 1, Len(name)) = JsonSuffix

\* a < b as Python compares two str: by the first differing code point, a
\* proper prefix before the longer string
RECURSIVE StrLess(_, _)
StrLess(a, b) ==
    IF a = <<>> THEN b # <<>>
    ELSE IF b = <<>> THEN FALSE
    ELSE IF Head(a) # Head(b) THEN Head(a) < Head(b)
    ELSE StrLess(Tail(a), Tail(b))

\* mutant of Sorted: largest first
RECURSIVE Sorted_Descending(_)
Sorted_Descending(names) ==
    IF names = {} THEN <<>>
    ELSE LET most == CHOOSE a \in names : \A b \in names \ {a} : StrLess(b, a)
         IN  <<most>> \o Sorted_Descending(names \ {most})

\* sorted(names): ascending, smallest first
RECURSIVE Sorted(_)
Sorted(names) ==
    IF names = {} THEN <<>>
    ELSE LET least == CHOOSE a \in names : \A b \in names \ {a} : StrLess(a, b)
         IN  <<least>> \o Sorted(names \ {least})

\* ------------------------------------------------------ store: JSON values

\* the keys of a proposition dict, in the order the dict literals list them
KeyOrder == <<"proposition", "domain", "timestamp">>

\* A Python value: a dict of str fields, or a list of such dicts.
PyDict(fields) == [py |-> "dict", fields |-> fields]
PyList(items) == [py |-> "list", items |-> items]

\* isinstance(data, list)
IsList(data) == data.py = "list"

\* {"proposition": ..., "domain": ..., "timestamp": ...}
Proposition(text, domain, timestamp) ==
    PyDict([proposition |-> text, domain |-> domain, timestamp |-> timestamp])

\* json.dump of a dict: one member per key, in key order
JsonObject(d) ==
    [tag |-> "object",
     members |-> [i \in 1..Len(KeyOrder) |-> <<KeyOrder[i], d.fields[KeyOrder[i]]>>]]

\* json.dump(data, f, indent=2, ensure_ascii=False): the document written
JsonDump(data) ==
    IF IsList(data)
    THEN [tag |-> "array",
          elems |-> [i \in 1..Len(data.items) |-> JsonObject(data.items[i])]]
    ELSE JsonObject(data)

\* the dict a JSON object parses to: a key's last member wins
ObjectToDict(doc) ==
    LET ms == doc.members
        keys == {ms[i][1] : i \in DOMAIN ms}
        last(k) == CHOOSE i \in DOMAIN ms :
                       /\ ms[i][1] = k
                       /\ \A j \in DOMAIN ms : ms[j][1] = k => j <= i
    IN  PyDict([k \in keys |-> ms[last(k)][2]])

\* json.load(f): the value a document parses to
JsonLoad(doc) ==
    IF doc.tag = "array"
    THEN PyList([i \in 1..Len(doc.elems) |-> ObjectToDict(doc.elems[i])])
    ELSE ObjectToDict(doc)

\* ---------------------------------------------------- store: directories

Dirs == {"propositions", "responses/5"}

\* self.refinement_stages
RefinementStages == 5

\* f"responses/{stage}"
StageDir(stage) ==
    <<"responses/1", "responses/2", "responses/3", "responses/4", "responses/5">>[stage]

\* f"temp_input_{batch_num}"
\* of the batch ids 1..8, and of 1001 (an id past the three digits of
\* f"{batch_num:03d}")
TempNames ==
    <<"temp_input_1", "temp_input_2", "temp_input_3", "temp_input_4",
      "temp_input_5", "temp_input_6", "temp_input_7", "temp_input_8">>
        @@ (1001 :> "temp_input_1001")

TempInput(batch_num) == TempNames[batch_num]

\* the directories PropositionController works in
CtlDirs ==
    {"propositions"} \cup {StageDir(k) : k \in 1..RefinementStages}
        \cup {TempNames[b] : b \in DOMAIN TempNames}

NoFiles == <<>>
AbsentDir == [exists |-> FALSE, files |-> NoFiles]

\* folder.exists()
DirExists(f, d) == f[d].exists

\* the names of the files of a directory
FileNames(f, d) == DOMAIN f[d].files

\* folder.glob("*.json"), as a set: the order glob yields them in is the
\* operating system's
GlobJson(f, d) == {n \in FileNames(f, d) : IsJsonName(n)}

\* with open(json_file, 'r') as f: data = json.load(f)
ReadJson(f, d, name) == JsonLoad(f[d].files[name])

\* a function with one more (or one replaced) entry
Put(files, name, doc) ==
    [n \in (DOMAIN files) \cup {name} |-> IF n = name THEN doc ELSE files[n]]

\* mutant of WriteJson: a file that exists is left as it is
WriteJson_KeepsExisting(f, d, name, data) ==
    [f EXCEPT ![d].files =
        IF name \in DOMAIN @ THEN @ ELSE Put(@, name, JsonDump(data))]

\* with open(path, 'w') as f: json.dump(data, f, ...): the file is created
\* or truncated, then written
WriteJson(f, d, name, data) ==
    [f EXCEPT ![d].files = Put(@, name, JsonDump(data))]

\* os.makedirs(d, exist_ok=True)
MakeDirs(f, d) == [f EXCEPT ![d].exists = TRUE]

\* --------------------------------------------------- store: the operations

\* mutant of ItemCount: every file counts 1
ItemCount_OnePerFile(data) == 1

\* count += len(data) if isinstance(data, list) else 1
ItemCount(data) == IF IsList(data) THEN Len(data.items) ELSE 1

\* the for loop of count_completed_propositions over final_folder.glob("*.json")
RECURSIVE CountFiles(_, _, _)
CountFiles(f, d, names) ==
    IF names = {} THEN 0
    ELSE LET n == CHOOSE x \in names : TRUE
         IN  ItemCount(ReadJson(f, d, n)) + CountFiles(f, d, names \ {n})

\* PropositionController.count_completed_propositions
count_completed_propositions(f) ==
    IF ~DirExists(f, "responses/5") THEN 0
    ELSE CountFiles(f, "responses/5", GlobJson(f, "responses/5"))

\* mutant of ExtendOrAppend: a list is appended as one element
ExtendOrAppend_AlwaysAppend(propositions, data) == Append(propositions, data)

\* propositions.extend(data) if isinstance(data, list) else propositions.append(data)
ExtendOrAppend(propositions, data) ==
    IF IsList(data) THEN propositions \o data.items ELSE Append(propositions, data)

\* the for loop of load_propositions_from_folder over the sorted json_files
RECURSIVE LoadFiles(_, _, _, _)
LoadFiles(f, d, json_files, propositions) ==
    IF json_files = <<>> THEN propositions
    ELSE LoadFiles(f, d, Tail(json_files),
                   ExtendOrAppend(propositions, ReadJson(f, d, Head(json_files))))

\* json_files = sorted(folder.glob("*.json"))
SortedJsonFiles(f, d) == Sorted(GlobJson(f, d))

\* mutant of load_propositions_from_folder: the `if not json_files` check is
\* missing
load_propositions_from_folder_NoEmptyCheck(f, d) ==
    IF ~DirExists(f, d)
    THEN [status |-> "FileNotFoundError", value |-> <<>>]
    ELSE [status |-> "ok", value |-> LoadFiles(f, d, SortedJsonFiles(f, d), <<>>)]

\* BatchRefiner.load_propositions_from_folder: the list it returns, or the
\* exception it raises
load_propositions_from_folder(f, d) ==
    IF ~DirExists(f, d)
    THEN [status |-> "FileNotFoundError", value |-> <<>>]
    ELSE IF SortedJsonFiles(f, d) = <<>>
    THEN [status |-> "FileNotFoundError", value |-> <<>>]
    ELSE [status |-> "ok", value |-> LoadFiles(f, d, SortedJsonFiles(f, d), <<>>)]

\* ------------------------------------------------ store: the remote service

\* the keyword defaults every @retry_with_exponential_backoff use runs with
DefaultConfig ==
    [max_retries |-> 5, initial_delay |-> 100, exponential_base |-> 2,
     jitter |-> TRUE]

\* delay_between_calls: float = 1.5
DefaultDelay == 150

\* two of the twenty entries of `domains`
Domains == <<"physics", "logic">>

\* How the remote behaves during one operation: request number `poison` (0:
\* none) fails for good, by an exception no except clause names ("Exception")
\* or by rate limiting that never ends ("RateLimitError"); every request
\* first fails `flaky` times with a transient APIError.
Envs(requests) ==
    [poison : 0..requests, how : {"Exception", "RateLimitError"}, flaky : 0..1]

\* client.messages.create(...) for a refinement prompt: the text generated
\* for this proposition, with whitespace around it
RefinedResponse(proposition) ==
    [body |-> [seed |-> proposition.seed, rev |-> proposition.rev + 1],
     pad |-> TRUE]

\* client.messages.create(...) for a generation prompt: a new text
GeneratedResponse(seed) == [body |-> [seed |-> seed, rev |-> 0], pad |-> TRUE]

\* response.content[0].text.strip()
Strip(response) == response.body

\* what make_api_call does on its successive invocations for request j
ScriptOf(env, j, response) ==
    [i \in 1..env.flaky |-> [kind |-> "APIError", val |-> "exc"]]
        \o <<IF env.poison = j THEN [kind |-> env.how, val |-> "exc"]
             ELSE [kind |-> "ok", val |-> response]>>

\* time.sleep(delay_before_call) if delay_before_call > 0
Naps(delay) == IF delay > 0 THEN 1 ELSE 0

\* mutant of NapEvents: the sleep is taken whatever the delay
NapEvents_Always(delay) == <<[ev |-> "nap", n |-> delay]>>

\* the same sleep, as the event it is in the trace of a request
NapEvents(delay) == IF delay > 0 THEN <<[ev |-> "nap", n |-> delay]>> ELSE <<>>

\* --------------------------------------------------- store: BatchRefiner

\* what a loop over requests starts with: refined = [], no request made
NoneDone ==
    [status |-> "ok", refined |-> <<>>, calls |-> 0, naps |-> 0, events |-> <<>>]

\* prop_data['proposition'], prop_data['domain'] and prop_data['timestamp']
\* can be read: prop_data is a dict with these keys
HasFields(prop_data) ==
    /\ prop_data.py = "dict"
    /\ {KeyOrder[i] : i \in DOMAIN KeyOrder} \subseteq DOMAIN prop_data.fields

\* BatchRefiner.refine_proposition: the dict it returns or the exception it
\* raises, with the remote invocations and inter-call sleeps it made
refine_proposition(prop_data, delay_before_call, env, j) ==
    LET proposition == prop_data.fields.proposition
        domain == prop_data.fields.domain
        timestamp == prop_data.fields.timestamp
        \* what follows response = make_api_call(), w being how the call ended
        After(w) ==
            IF w.status = "returned"
            THEN [status |-> "ok",
                  value |-> Proposition(Strip(w.val), domain, timestamp),
                  calls |-> w.calls, naps |-> Naps(delay_before_call),
                  events |-> NapEvents(delay_before_call) \o w.events]
            ELSE [status |-> w.kind, value |-> <<>>,
                  calls |-> w.calls, naps |-> Naps(delay_before_call),
                  events |-> NapEvents(delay_before_call) \o w.events]
    IN  IF ~HasFields(prop_data)
        THEN \* the subscripts at the head of the method raise
             [status |-> IF prop_data.py = "dict" THEN "KeyError" ELSE "TypeError",
              value |-> <<>>, calls |-> 0, naps |-> 0, events |-> <<>>]
        ELSE Only({After(w) : w \in {Wrapper(DefaultConfig,
                                             ScriptOf(env, j, RefinedResponse(proposition)), <<>>)}})

\* mutant of RefineLoop: each result is put at the front of refined
RECURSIVE RefineLoop_Prepends(_, _, _, _, _)
RefineLoop_Prepends(propositions, delay, env, i, acc) ==
    IF i > Len(propositions) THEN acc
    ELSE LET \* the rest of the loop body, result being how the call ended
             Rest(result) ==
                 LET acc1 == [acc EXCEPT !.calls = @ + result.calls,
                                         !.naps = @ + result.naps,
                                         !.events = @ \o result.events]
                 IN  IF result.status = "ok"
                     THEN RefineLoop_Prepends(propositions, delay, env, i + 1,
                              [acc1 EXCEPT !.refined = <<result.value>> \o @])
                     ELSE [acc1 EXCEPT !.status = result.status]
         IN  Only({Rest(result) : result \in {refine_proposition(propositions[i], delay, env, i)}})

\* mutant of RefineLoop: an item whose refinement raises is left out and the
\* loop goes on
RECURSIVE RefineLoop_SkipsFailed(_, _, _, _, _)
RefineLoop_SkipsFailed(propositions, delay, env, i, acc) ==
    IF i > Len(propositions) THEN acc
    ELSE LET Rest(result) ==
                 LET acc1 == [acc EXCEPT !.calls = @ + result.calls,
                                         !.naps = @ + result.naps,
                                         !.events = @ \o result.events]
                 IN  IF result.status = "ok"
                     THEN RefineLoop_SkipsFailed(propositions, delay, env, i + 1,
                              [acc1 EXCEPT !.refined = Append(@, result.value)])
                     ELSE RefineLoop_SkipsFailed(propositions, delay, env, i + 1, acc1)
         IN  Only({Rest(result) : result \in {refine_proposition(propositions[i], delay, env, i)}})

\* `for i, prop_data in enumerate(propositions)` of refine_batch: refined
\* grows until the list is done or an item's exception ends the loop
RECURSIVE RefineLoop(_, _, _, _, _)
RefineLoop(propositions, delay, env, i, acc) ==
    IF i > Len(propositions) THEN acc
    ELSE LET \* the rest of the loop body, result being how the call ended
             Rest(result) ==
                 LET acc1 == [acc EXCEPT !.calls = @ + result.calls,
                                         !.naps = @ + result.naps,
                                         !.events = @ \o result.events]
                 IN  IF result.status = "ok"
                     THEN RefineLoop(propositions, delay, env, i + 1,
                              [acc1 EXCEPT !.refined = Append(@, result.value)])
                     ELSE [acc1 EXCEPT !.status = result.status]
         IN  Only({Rest(result) : result \in {refine_proposition(propositions[i], delay, env, i)}})

\* Path(input_folder).name
FolderName(d) ==
    IF d = "propositions"
    THEN <<112, 114, 111, 112, 111, 115, 105, 116, 105, 111, 110, 115>>
    ELSE IF \E k \in 1..RefinementStages : d = StageDir(k)
    THEN <<48 + (CHOOSE k \in 1..RefinementStages : d = StageDir(k))>>
    ELSE <<116, 101, 109, 112, 95, 105, 110, 112, 117, 116, 95>>
             \o Digits(CHOOSE b \in DOMAIN TempNames : d = TempNames[b])

\* mutant of OriginalFilename: the name is always made from the folder's name
OriginalFilename_FromFolder(f, input_folder, first) ==
    BatchPrefix \o FolderName(input_folder) \o JsonSuffix

\* original_filename: input_files[0].name, where input_files is
\* list(Path(input_folder).glob("*.json")) and `first` the file glob yields
\* first; f"batch_{Path(input_folder).name}.json" when glob yields none
OriginalFilename(f, input_folder, first) ==
    IF GlobJson(f, input_folder) # {} THEN first
    ELSE BatchPrefix \o FolderName(input_folder) \o JsonSuffix

\* the files glob may yield first
FirstFiles(f, d) == IF GlobJson(f, d) = {} THEN {<<>>} ELSE GlobJson(f, d)

\* what an operation reports: how it ended, its return value, the list it
\* handed to json.dump, the files it wrote (with whether each existed), and
\* the remote invocations and inter-call sleeps it made
Report(op, args, status, value, data, wrote, calls, naps) ==
    [op |-> op, args |-> args, status |-> status, value |-> value,
     data |-> data, wrote |-> wrote, calls |-> calls, naps |-> naps]

\* one written file, for Report
Wrote(f, d, name) == [dir |-> d, name |-> name, existed |-> name \in FileNames(f, d)]

\* BatchRefiner.refine_batch(input_folder, output_folder, delay_between_calls);
\* the report's args end with how the remote behaved during the call
refine_batch(f, input_folder, output_folder, delay, env, first) ==
    LET args == <<input_folder, output_folder, env>>
        f1 == MakeDirs(f, output_folder)
        original_filename == OriginalFilename(f1, input_folder, first)
        \* lines 190-205, `loop` being how the for loop ended
        Save(loop) ==
            IF loop.status # "ok"
            THEN [fs |-> f1,
                  ret |-> Report("refine_batch", args, loop.status, 0, <<>>, {},
                                 loop.calls, loop.naps)]
            ELSE [fs |-> WriteJson(f1, output_folder, original_filename,
                                   PyList(loop.refined)),
                  ret |-> Report("refine_batch", args, "ok", Len(loop.refined),
                                 loop.refined,
                                 {Wrote(f1, output_folder, original_filename)},
                                 loop.calls, loop.naps)]
        \* lines 178-205, `loaded` being how load_propositions_from_folder ended
        Refine(loaded) ==
            IF loaded.status # "ok"
            THEN [fs |-> f,
                  ret |-> Report("refine_batch", args, loaded.status, 0, <<>>, {}, 0, 0)]
            ELSE Only({Save(loop) : loop \in {RefineLoop(loaded.value, delay, env, 1,
                                                         NoneDone)}})
    IN  Only({Refine(loaded) : loaded \in {load_propositions_from_folder(f, input_folder)}})

\* ------------------------------------------- store: PropositionController

\* values random_source.get_random_integers(1, 0, 100)[0] may return
DomainNums == {1, 100}

\* readings of datetime.now()
Clock == {20}

\* RandomPropositionGenerator.generate_proposition: `domain_num` is the
\* random number drawn for the domain, `now` the clock when the call returns,
\* `seed` names the text the remote generates for this request
generate_proposition(domain_num, now, delay_between_calls, env, j, seed) ==
    LET domain == Domains[(domain_num % Len(Domains)) + 1]
        \* what follows message = make_api_call(), w being how the call ended
        After(w) ==
            IF w.status = "returned"
            THEN [status |-> "ok", value |-> Proposition(Strip(w.val), domain, now),
                  calls |-> w.calls, naps |-> Naps(delay_between_calls),
                  events |-> NapEvents(delay_between_calls) \o w.events]
            ELSE [status |-> w.kind, value |-> <<>>,
                  calls |-> w.calls, naps |-> Naps(delay_between_calls),
                  events |-> NapEvents(delay_between_calls) \o w.events]
    IN  Only({After(w) : w \in {Wrapper(DefaultConfig, ScriptOf(env, j, GeneratedResponse(seed)), <<>>)}})

\* mutant of GenerateLoop: an item whose generation raises is left out and the
\* loop goes on
RECURSIVE GenerateLoop_SkipsFailed(_, _, _, _, _, _, _)
GenerateLoop_SkipsFailed(batch_size, batch_num, domain_nums, now, env, i, acc) ==
    IF i > batch_size THEN acc
    ELSE LET Rest(result) ==
                 LET acc1 == [acc EXCEPT !.calls = @ + result.calls,
                                         !.naps = @ + result.naps,
                                         !.events = @ \o result.events]
                 IN  GenerateLoop_SkipsFailed(
                         batch_size, batch_num, domain_nums, now, env, i + 1,
                         IF result.status = "ok"
                         THEN [acc1 EXCEPT !.refined = Append(@, result.value)]
                         ELSE acc1)
         IN  Only({Rest(result) : result \in {generate_proposition(domain_nums[i], now + i, DefaultDelay,
                                                                   env, i, 100 * batch_num + i)}})

\* `for i in range(self.batch_size)` of generate_batch
RECURSIVE GenerateLoop(_, _, _, _, _, _, _)
GenerateLoop(batch_size, batch_num, domain_nums, now, env, i, acc) ==
    IF i > batch_size THEN acc
    ELSE LET \* the rest of the loop body, result being how the call ended
             Rest(result) ==
                 LET acc1 == [acc EXCEPT !.calls = @ + result.calls,
                                         !.naps = @ + result.naps,
                                         !.events = @ \o result.events]
                 IN  IF result.status = "ok"
                     THEN GenerateLoop(batch_size, batch_num, domain_nums, now, env,
                                       i + 1,
                                       [acc1 EXCEPT !.refined = Append(@, result.value)])
                     ELSE [acc1 EXCEPT !.status = result.status]
         IN  Only({Rest(result) : result \in {generate_proposition(domain_nums[i], now + i, DefaultDelay,
                                                                   env, i, 100 * batch_num + i)}})

\* PropositionController.generate_batch(batch_num): open(output_file, 'w')
\* raises FileNotFoundError when the propositions folder is missing
generate_batch(f, batch_size, batch_num, domain_nums, now, env) ==
    LET name == BatchFileName(batch_num)
        \* lines 84-90, `loop` being how the for loop ended
        Save(loop) ==
            IF loop.status # "ok"
            THEN [fs |-> f,
                  ret |-> Report("generate_batch", <<batch_num>>, loop.status, <<>>,
                                 <<>>, {}, loop.calls, loop.naps)]
            ELSE IF ~DirExists(f, "propositions")
            THEN [fs |-> f,
                  ret |-> Report("generate_batch", <<batch_num>>, "FileNotFoundError",
                                 <<>>, <<>>, {}, loop.calls, loop.naps)]
            ELSE [fs |-> WriteJson(f, "propositions", name, PyList(loop.refined)),
                  ret |-> Report("generate_batch", <<batch_num>>, "ok",
                                 <<"propositions", name>>, loop.refined,
                                 {Wrote(f, "propositions", name)},
                                 loop.calls, loop.naps)]
    IN  Only({Save(loop) : loop \in {GenerateLoop(batch_size, batch_num, domain_nums, now, env, 1,
                                                  NoneDone)}})

\* ---------------------------------------------- store: PropositionPipeline

\* datetime.now().strftime("%Y%m%d_%H%M%S") for a clock that reads `now`
\* seconds into 2025-01-01 00:00
Stamp(now) ==
    <<50, 48, 50, 53, 48, 49, 48, 49, 95, 48, 48, 48, 48>> \o ZeroPad(Digits(now), 2)

\* PropositionPipeline.save_batch(data, output_dir, prefix) with prefix "batch"
save_batch(f, data, output_dir, now) ==
    LET filename == BatchPrefix \o Stamp(now) \o JsonSuffix
    IN  IF ~DirExists(f, output_dir)
        THEN [fs |-> f,
              ret |-> Report("save_batch", <<output_dir>>, "FileNotFoundError",
                             <<>>, <<>>, {}, 0, 0)]
        ELSE [fs |-> WriteJson(f, output_dir, filename, PyList(data)),
              ret |-> Report("save_batch", <<output_dir>>, "ok",
                             <<output_dir, filename>>, data,
                             {Wrote(f, output_dir, filename)}, 0, 0)]

\* ------------------------------------------------------ store: the machine

\* the batch files a directory may hold when the program starts
InitNames == <<BatchFileName(1), BatchFileName(2), BatchFileName(10)>>

\* the item at position j of the k-th such file
SampleItem(k, j) ==
    Proposition([seed |-> 10 * k + j, rev |-> 0], Domains[((k + j) % 2) + 1], k)

SampleList(k, n) == [j \in 1..n |-> SampleItem(k, j)]

\* What the k-th batch file found on disk holds: nothing (shape -2: no such
\* file), one bare record (shape -1), or a list of shape >= 0 records. The
\* first file may hold an empty or a one-record list, the later ones hold
\* longer lists.
Shapes(k) ==
    IF k = 1 THEN {-2, -1, 0, 1}
    ELSE IF k = 2 THEN {-2, -1, MaxItems}
    ELSE {-2, MaxItems + 1}

SampleDoc(k, shape) ==
    IF shape = -1 THEN JsonDump(SampleItem(k, 1))
    ELSE JsonDump(PyList(SampleList(k, shape)))

\* a directory holding the batch files `shapes` tells, beside a file that is
\* no .json file
SampleDir(shapes) ==
    [exists |-> TRUE,
     files |-> [n \in {InitNames[k] : k \in {k \in DOMAIN InitNames : shapes[k] # -2}}
                        \cup {NotesName} |->
                    IF n = NotesName THEN [tag |-> "text"]
                    ELSE LET k == CHOOSE k \in DOMAIN InitNames : InitNames[k] = n
                         IN  SampleDoc(k, shapes[k])]]

RichDirs ==
    {SampleDir(shapes) :
        shapes \in {sh \in [DOMAIN InitNames -> (-2)..(MaxItems + 1)] :
                       \A k \in DOMAIN InitNames : sh[k] \in Shapes(k)}}

\* the other directory: missing, or left with one batch file by an earlier
\* run (an existing directory without batch files is among RichDirs)
OldFile(name) ==
    [exists |-> TRUE, files |-> [n \in {name} |-> JsonDump(PyList(SampleList(4, 1)))]]

SmallDirs == {AbsentDir, OldFile(BatchFileName(1))}

StoreInit ==
    /\ \E rich \in Dirs :
          fs \in {f \in [Dirs -> RichDirs \cup SmallDirs] :
                     /\ f[rich] \in RichDirs
                     /\ \A d \in Dirs \ {rich} : f[d] \in SmallDirs}
    /\ pre = fs
    /\ ops = <<>>
    /\ spc = "ready"
    /\ cfg = DefaultConfig
    /\ script = <<>>
    /\ draws = <<>>
    /\ out = NoOut
    /\ rpc = "off"
    /\ ctl = NoCtl

\* python refine_batch.py <input_folder> <output_folder>
RefineBatch ==
    /\ spc = "ready"
    /\ \E input_folder \in Dirs, output_folder \in Dirs :
       \E first \in FirstFiles(fs, input_folder) :
       \E env \in Envs(Len(load_propositions_from_folder(fs, input_folder).value)) :
          LET r == refine_batch(fs, input_folder, output_folder, DefaultDelay, env, first)
          IN  fs' = r.fs /\ ops' = Append(ops, r.ret)
    /\ pre' = fs
    /\ spc' = "written"
    /\ UNCHANGED <<retryVars, ctlVars>>

\* controller.generate_batch(batch_num)
GenerateBatch ==
    /\ spc = "ready"
    /\ \E batch_num \in 1..2, now \in Clock, env \in Envs(BatchSize) :
       \E domain_nums \in [1..BatchSize -> DomainNums] :
          LET r == generate_batch(fs, BatchSize, batch_num, domain_nums, now, env)
          IN  fs' = r.fs /\ ops' = Append(ops, r.ret)
    /\ pre' = fs
    /\ spc' = "written"
    /\ UNCHANGED <<retryVars, ctlVars>>

\* pipeline.save_batch(data, output_dir, "batch")
SaveBatch ==
    /\ spc = "ready"
    /\ \E n \in 0..MaxItems, output_dir \in Dirs, now \in Clock :
          LET r == save_batch(fs, SampleList(5, n), output_dir, now)
          IN  fs' = r.fs /\ ops' = Append(ops, r.ret)
    /\ pre' = fs
    /\ spc' = "written"
    /\ UNCHANGED <<retryVars, ctlVars>>

\* controller.count_completed_propositions()
CountCompleted ==
    /\ spc \in {"ready", "written"}
    /\ ops' = Append(ops, Report("count_completed_propositions", <<>>, "ok",
                                 count_completed_propositions(fs), <<>>, {}, 0, 0))
    /\ spc' = "done"
    /\ UNCHANGED <<fs, pre, retryVars, ctlVars>>

\* refiner.load_propositions_from_folder(folder_path)
LoadFolder ==
    /\ spc \in {"ready", "written"}
    /\ \E folder_path \in Dirs :
          LET r == load_propositions_from_folder(fs, folder_path)
          IN  ops' = Append(ops, Report("load_propositions_from_folder",
                                        <<folder_path>>, r.status, r.value,
                                        <<>>, {}, 0, 0))
    /\ spc' = "done"
    /\ UNCHANGED <<fs, pre, retryVars, ctlVars>>

StoreNext ==
    \/ RefineBatch
    \/ GenerateBatch
    \/ SaveBatch
    \/ CountCompleted
    \/ LoadFolder

SpecStore == StoreInit /\ [][StoreNext]_vars

\* ------------------------------------------------- requests: the machine

\* the delays between calls a caller may ask for: none, the shortest and the
\* longest main accepts, and the default
Delays == {0, 10, DefaultDelay, 1000}

\* a list of propositions to refine and the delay to refine them with
LoopInit ==
    /\ \E delay \in Delays, k \in 1..3, n \in 1..MaxItems :
          out = [delay |-> delay, propositions |-> SampleList(k, n)]
    /\ cfg = DefaultConfig
    /\ script = <<>>
    /\ draws = <<>>
    /\ rpc = "loop"
    /\ fs = <<>>
    /\ pre = <<>>
    /\ ops = <<>>
    /\ spc = "off"
    /\ ctl = NoCtl

\* the for loop of BatchRefiner.refine_batch over the propositions
LoopRefine ==
    /\ rpc = "loop"
    /\ \E env \in Envs(Len(out.propositions)) :
          out' = [op |-> "refine", delay |-> out.delay, env |-> env,
                  requests |-> Len(out.propositions),
                  loop |-> RefineLoop(out.propositions, out.delay, env, 1, NoneDone)]
    /\ rpc' = "looped"
    /\ UNCHANGED <<cfg, script, draws, storeVars, ctlVars>>

\* the for loop of PropositionController.generate_batch, which is
\* constructed with the default delay
LoopGenerate ==
    /\ rpc = "loop"
    /\ \E env \in Envs(BatchSize), now \in Clock :
       \E domain_nums \in [1..BatchSize -> DomainNums] :
          out' = [op |-> "generate", delay |-> DefaultDelay, env |-> env,
                  requests |-> BatchSize,
                  loop |-> GenerateLoop(BatchSize, 1, domain_nums, now, env, 1,
                                        NoneDone)]
    /\ rpc' = "looped"
    /\ UNCHANGED <<cfg, script, draws, storeVars, ctlVars>>

LoopNext ==
    \/ LoopRefine
    \/ LoopGenerate

SpecLoop == LoopInit /\ [][LoopNext]_vars

\* ------------------------------------------------ controller: the stage loop

\* PropositionController.setup_folders
RECURSIVE MakeStageDirs(_, _)
MakeStageDirs(f, stage) ==
    IF stage > RefinementStages THEN f
    ELSE MakeStageDirs(MakeDirs(f, StageDir(stage)), stage + 1)

setup_folders(f) == MakeStageDirs(MakeDirs(f, "propositions"), 1)

\* `sub` occurs in s
Contains(s, sub) ==
    \E i \in 1..(Len(s) - Len(sub) + 1) : SubSeq(s, i, i + Len(sub) - 1) = sub

\* the name matches f"batch_*{batch_num:03d}*.json"
MatchesPattern(name, batch_num) ==
    /\ Len(name) >= Len(BatchPrefix) + Len(JsonSuffix)
    /\ SubSeq(name, 1, Len(BatchPrefix)) = BatchPrefix
    /\ IsJsonName(name)
    /\ Contains(SubSeq(name, Len(BatchPrefix) + 1, Len(name) - Len(JsonSuffix)),
                ZeroPad(Digits(batch_num), 3))

\* list(Path(source_folder).glob(pattern)), as a set
GlobPattern(f, d, batch_num) == {n \in FileNames(f, d) : MatchesPattern(n, batch_num)}

\* source_folder of a stage
SourceFolder(stage) == IF stage = 1 THEN "propositions" ELSE StageDir(stage - 1)

\* source_file of a stage, as <<folder, name>>: the batch's file in
\* propositions for stage 1, f"batch_{source_folder.split('/')[-1]}.json" in
\* the previous stage's folder for the later stages
SourceFile(batch_num, stage) ==
    IF stage = 1 THEN <<"propositions", BatchFileName(batch_num)>>
    ELSE <<StageDir(stage - 1), BatchPrefix \o Digits(stage - 1) \o JsonSuffix>>

\* shutil.copy(src, dst)
CopyFile(f, src_dir, src_name, dst_dir, dst_name) ==
    [f EXCEPT ![dst_dir].files = Put(@, dst_name, f[src_dir].files[src_name])]

\* shutil.rmtree(d)
RemoveTree(f, d) == [f EXCEPT ![d] = AbsentDir]

\* what matches[0] may be
FirstMatches(f, batch_num, stage) ==
    IF GlobPattern(f, SourceFolder(stage), batch_num) = {} THEN {<<>>}
    ELSE GlobPattern(f, SourceFolder(stage), batch_num)

\* the temporary folder of a stage, made and filled with this batch's file
\* under the name input_file; `match` is matches[0]
PrepareTempInput(f, batch_num, stage, match) ==
    LET temp_input == TempInput(batch_num)
        input_file == BatchFileName(batch_num)
        source_file == SourceFile(batch_num, stage)
        f1 == MakeDirs(f, temp_input)
    IN  IF source_file[2] \in FileNames(f1, source_file[1])
        THEN CopyFile(f1, source_file[1], source_file[2], temp_input, input_file)
        ELSE IF GlobPattern(f1, SourceFolder(stage), batch_num) # {}
        THEN CopyFile(f1, SourceFolder(stage), match, temp_input, input_file)
        ELSE f1

\* the report of a stage: that of its refine_batch, with the batch and the
\* stage put before its arguments
StageReport(batch_num, stage, ret) ==
    [ret EXCEPT !.op = "refine_stage", !.args = <<batch_num, stage>> \o @]

\* one iteration of `for stage in range(1, self.refinement_stages + 1)`: the
\* temporary folder is removed when refine_batch returns
refine_stage(f, batch_num, stage, delay, env, match, first) ==
    LET temp_input == TempInput(batch_num)
        \* lines 137-140, r being how refine_batch ended
        CleanUp(r) ==
            [fs |-> IF r.ret.status = "ok" THEN RemoveTree(r.fs, temp_input) ELSE r.fs,
             ret |-> StageReport(batch_num, stage, r.ret)]
        \* lines 134-140, f1 being the directories with the temporary folder
        Refine(f1) ==
            Only({CleanUp(r) : r \in {refine_batch(f1, temp_input, StageDir(stage), delay, env, first)}})
    IN  Only({Refine(f1) : f1 \in {PrepareTempInput(f, batch_num, stage, match)}})

\* ------------------------------------------------ controller: the machine

\* a remote that answers every request at once
OkEnv == [poison |-> 0, how |-> "Exception", flaky |-> 0]

\* How the remote behaves during one step of the controller: it answers, or
\* (while fewer than MaxFailures batches have failed) its first request fails
\* by an exception that is not retried, or its last request is rate limited
\* for good.
CtlEnvs(requests, failures) ==
    {OkEnv} \cup
    (IF failures < MaxFailures /\ requests > 0
     THEN {[poison |-> 1, how |-> "Exception", flaky |-> 0],
           [poison |-> requests, how |-> "RateLimitError", flaky |-> 0]}
     ELSE {})

\* the numbers random.org returns for the domains of one batch
CtlDomainNums == {[i \in 1..BatchSize |-> IF i % 2 = 1 THEN 1 ELSE 100]}

\* datetime.now() while batch batch_num is generated in run `run_no`
RunClock(run_no, batch_num) == 100 * run_no + 10 * batch_num

\* no directory exists
NothingOnDisk == [d \in CtlDirs |-> AbsentDir]

\* the directories an earlier run may have left that completed stages
\* `stage`..`upto` of a batch, from each of the directories `disks`
RECURSIVE StagesDone(_, _, _, _)
StagesDone(disks, batch_num, stage, upto) ==
    IF stage > upto THEN disks
    ELSE StagesDone(
             UNION {UNION {{refine_stage(f, batch_num, stage, DefaultDelay, OkEnv,
                                         match, first).fs :
                               first \in FirstFiles(
                                   PrepareTempInput(f, batch_num, stage, match),
                                   TempInput(batch_num))} :
                           match \in FirstMatches(f, batch_num, stage)} :
                    f \in disks},
             batch_num, stage + 1, upto)

\* the directories after an earlier run generated a batch in an empty working
\* directory and took it through stages 1..upto
EarlierBatch(batch_num, upto) ==
    StagesDone({generate_batch(setup_folders(NothingOnDisk), BatchSize, batch_num,
                               domain_nums, RunClock(0, batch_num), OkEnv).fs :
                   domain_nums \in CtlDomainNums},
               batch_num, 1, upto)

\* the directories and files of f with those of g: what two batches leave
\* that share no file
Overlay(f, g) ==
    [d \in CtlDirs |->
        [exists |-> f[d].exists \/ g[d].exists,
         files |-> [n \in (DOMAIN f[d].files) \cup (DOMAIN g[d].files) |->
                       IF n \in DOMAIN g[d].files THEN g[d].files[n]
                       ELSE f[d].files[n]]]]

\* the directories after an earlier run completed batches 1..to
RECURSIVE EarlierBatches(_)
EarlierBatches(to) ==
    IF to = 0 THEN {setup_folders(NothingOnDisk)}
    ELSE {Overlay(f, g) : f \in EarlierBatches(to - 1),
                          g \in EarlierBatch(to, RefinementStages)}

\* the batches whose items reach the target
BatchesNeeded == (TargetTotal + BatchSize - 1) \div BatchSize

\* What the working directory holds when the program starts: nothing at all;
\* the empty folders of an earlier start; what an earlier run left that was
\* interrupted after its first
\* batch; what one left that was interrupted in stage 3 of its second batch;
\* what a run left that reached the target; what a run left all of whose
\* batches 1..1000 failed while they were generated (the remote was down),
\* that completed batch 1001 and was interrupted while it generated the next.
DisksAtStart ==
    {NothingOnDisk}
        \cup EarlierBatches(0)
        \cup EarlierBatches(1)
        \cup UNION {{Overlay(f, PrepareTempInput(g, 2, 3, match)) :
                        f \in EarlierBatches(1), match \in FirstMatches(g, 2, 3)} :
                    g \in EarlierBatch(2, 2)}
        \cup EarlierBatches(BatchesNeeded)
        \cup EarlierBatch(1001, RefinementStages)

\* mutant of LoopContinues: the loop goes on at the target
LoopContinues_AtTarget(completed) == completed <= TargetTotal

\* `while completed < self.target_total`
LoopContinues(completed) == completed < TargetTotal

\* mutant of AfterFailure: a stage that raises is passed over and the next
\* stage of the batch runs
AfterFailure_NextStage(c) ==
    IF c.pc = "stage" /\ c.stage < RefinementStages
    THEN [c EXCEPT !.stage = @ + 1, !.failures = @ + 1]
    ELSE [c EXCEPT !.pc = "while", !.batch_num = @ + 1, !.stage = 0,
                   !.failures = @ + 1]

\* mutant of AfterFailure: the exception ends run
AfterFailure_Raises(c) == [c EXCEPT !.pc = "raised", !.stage = 0, !.failures = @ + 1]

\* `except Exception`: batch_num += 1; continue
AfterFailure(c) ==
    [c EXCEPT !.pc = "while", !.batch_num = @ + 1, !.stage = 0, !.failures = @ + 1]

\* mutant of init_controller: the folders are made before the generator and
\* the refiner are constructed
init_controller_FoldersFirst(f, api_key) ==
    [fs |-> setup_folders(f), status |-> IF api_key THEN "ok" ELSE "ValueError"]

\* PropositionController.__init__: RandomPropositionGenerator() raises
\* ValueError when ANTHROPIC_API_KEY is not set, before setup_folders runs
init_controller(f, api_key) ==
    IF ~api_key THEN [fs |-> f, status |-> "ValueError"]
    ELSE [fs |-> setup_folders(f), status |-> "ok"]

\* mutant of AfterBatch: progress is added up in memory from what run found
\* at its start
AfterBatch_AddsInMemory(c, f) ==
    [c EXCEPT !.pc = "while", !.stage = 0, !.batch_num = @ + 1,
              !.completed = @ + BatchSize]

\* the batch went through its last stage:
\* completed = self.count_completed_propositions(); batch_num += 1
AfterBatch(c, f) ==
    [c EXCEPT !.pc = "while", !.stage = 0, !.batch_num = @ + 1,
              !.completed = count_completed_propositions(f)]

\* mutant of AfterInterrupt: the exit status of refine_batch.py's handler
AfterInterrupt_ExitsOne(c, f) ==
    [c EXCEPT !.pc = "exited", !.completed = count_completed_propositions(f),
              !.exit_code = 1]

\* `except KeyboardInterrupt` of run: completed is counted again, reported,
\* and sys.exit(0) ends the process
AfterInterrupt(c, f) ==
    [c EXCEPT !.pc = "exited", !.completed = count_completed_propositions(f),
              !.exit_code = 0]

\* the process starts: the environment has the credential or not;
\* exit_code is -1 while the process runs
CtlInit ==
    /\ fs \in DisksAtStart
    /\ pre = fs
    /\ ops = <<>>
    /\ spc = "off"
    /\ cfg = DefaultConfig
    /\ script = <<>>
    /\ draws = <<>>
    /\ out = NoOut
    /\ rpc = "off"
    /\ \E api_key \in BOOLEAN :
          ctl = [pc |-> "init", api_key |-> api_key, batch_num |-> 0,
                 completed |-> 0, stage |-> 0, failures |-> 0, exit_code |-> -1,
                 found |-> fs]

\* main, up to controller.run(): PropositionController(delay_between_calls);
\* an exception of the constructor is caught by main's `except Exception`,
\* which ends the process by sys.exit(1); `found` is the directories as run
\* finds them
Construct ==
    /\ ctl.pc = "init"
    /\ fs' = init_controller(fs, ctl.api_key).fs
    /\ ctl' = IF init_controller(fs, ctl.api_key).status = "ok"
              THEN [ctl EXCEPT !.pc = "start",
                               !.found = init_controller(fs, ctl.api_key).fs]
              ELSE [ctl EXCEPT !.pc = "init_failed", !.exit_code = 1]
    /\ pre' = fs
    /\ UNCHANGED <<ops, spc, retryVars>>

\* run, up to the while: completed = self.count_completed_propositions();
\* batch_num = 1
RunStart ==
    /\ ctl.pc = "start"
    /\ ctl' = [ctl EXCEPT !.pc = "while", !.batch_num = 1,
                          !.completed = count_completed_propositions(fs)]
    /\ ops' = Append(ops, Report("count_completed_propositions", <<>>, "ok",
                                 count_completed_propositions(fs), <<>>, {}, 0, 0))
    /\ pre' = fs
    /\ UNCHANGED <<fs, spc, retryVars>>

\* the while condition is false: the final summary, run returns and so does
\* main
LoopExit ==
    /\ ctl.pc = "while"
    /\ ~LoopContinues(ctl.completed)
    /\ ctl' = [ctl EXCEPT !.pc = "done", !.exit_code = 0]
    /\ pre' = fs
    /\ UNCHANGED <<fs, ops, spc, retryVars>>

\* the while condition is true: self.generate_batch(batch_num), and the
\* except clause when it raises
Generate ==
    /\ ctl.pc = "while"
    /\ LoopContinues(ctl.completed)
    /\ \E env \in CtlEnvs(BatchSize, ctl.failures), domain_nums \in CtlDomainNums :
          \E r \in {generate_batch(fs, BatchSize, ctl.batch_num, domain_nums,
                                    RunClock(1, ctl.batch_num), env)} :
              /\ fs' = r.fs
              /\ ops' = Append(ops, r.ret)
              /\ ctl' = IF r.ret.status = "ok"
                        THEN [ctl EXCEPT !.pc = "stage", !.stage = 1]
                        ELSE AfterFailure(ctl)
    /\ pre' = fs
    /\ UNCHANGED <<spc, retryVars>>

\* one stage of refine_batch_through_stages(batch_num); after the last one
\* completed = self.count_completed_propositions() and batch_num += 1; the
\* except clause when the stage raises
RefineStage ==
    /\ ctl.pc = "stage"
    /\ \E match \in FirstMatches(fs, ctl.batch_num, ctl.stage) :
       \E f1 \in {PrepareTempInput(fs, ctl.batch_num, ctl.stage, match)} :
       LET temp_input == TempInput(ctl.batch_num)
       IN  \E first \in FirstFiles(f1, temp_input) :
           \E env \in CtlEnvs(Len(load_propositions_from_folder(f1, temp_input).value),
                              ctl.failures) :
              \E r \in {refine_stage(fs, ctl.batch_num, ctl.stage, DefaultDelay,
                                      env, match, first)} :
                  /\ fs' = r.fs
                  /\ ops' = Append(ops, r.ret)
                  /\ ctl' = IF r.ret.status # "ok" THEN AfterFailure(ctl)
                            ELSE IF ctl.stage < RefinementStages
                            THEN [ctl EXCEPT !.stage = @ + 1]
                            ELSE AfterBatch(ctl, r.fs)
    /\ pre' = fs
    /\ UNCHANGED <<spc, retryVars>>

\* `except KeyboardInterrupt` of run: the operator interrupts the controller
\* while it generates a batch, or while a stage waits for the remote (the
\* stage's temporary folder is then left behind); progress is counted again
\* and sys.exit(0) ends the process
Interrupt ==
    /\ \/ ctl.pc = "while" /\ LoopContinues(ctl.completed) /\ fs' = fs
       \/ /\ ctl.pc = "stage"
          /\ \E match \in FirstMatches(fs, ctl.batch_num, ctl.stage) :
                fs' = PrepareTempInput(fs, ctl.batch_num, ctl.stage, match)
    /\ ops' = Append(ops, Report("interrupt", <<ctl.batch_num, ctl.stage>>,
                                 "KeyboardInterrupt",
                                 count_completed_propositions(fs), <<>>, {}, 0, 0))
    /\ ctl' = AfterInterrupt(ctl, fs)
    /\ pre' = fs
    /\ UNCHANGED <<spc, retryVars>>

CtlNext ==
    \/ Construct
    \/ RunStart
    \/ LoopExit
    \/ Generate
    \/ RefineStage
    \/ Interrupt

SpecCtl == CtlInit /\ [][CtlNext]_vars

\* A run the operator does not interrupt: the process takes its next step as
\* long as it has one (it is one sequential thread, and every call of the
\* remote ends: by an answer, or by the exception that is left when the
\* retries are used up), and at most MaxFailures of its batches fail.
RunNext ==
    \/ Construct
    \/ RunStart
    \/ LoopExit
    \/ Generate
    \/ RefineStage

SpecRun == CtlInit /\ [][RunNext]_vars /\ WF_vars(RunNext)

\* ------------------------------------- controller: two instances at once

\* two processes of control.py started in the same working directory
Controllers == {1, 2}

\* the files a step wrote, as <<directory, name>>
FilesOf(ret) == {<<w.dir, w.name>> : w \in ret.wrote}

\* both constructed in an empty working directory, each about to call run;
\* ctl.c[p] is the state of process p, with the batch ids it worked on and
\* the files it wrote
TwoInit ==
    /\ fs = setup_folders(NothingOnDisk)
    /\ pre = fs
    /\ ops = <<>>
    /\ spc = "off"
    /\ cfg = DefaultConfig
    /\ script = <<>>
    /\ draws = <<>>
    /\ out = NoOut
    /\ rpc = "off"
    /\ ctl = [pc |-> "two",
              c |-> [p \in Controllers |->
                        [pc |-> "start", batch_num |-> 0, completed |-> 0,
                         stage |-> 0, failures |-> 0, exit_code |-> -1,
                         ids |-> {}, wrote |-> {}]],
              found |-> fs]

\* run of process p, up to the while
TwoRunStart(p) ==
    /\ ctl.c[p].pc = "start"
    /\ ctl' = [ctl EXCEPT !.c[p].pc = "while", !.c[p].batch_num = 1,
                          !.c[p].completed = count_completed_propositions(fs)]
    /\ pre' = fs
    /\ UNCHANGED <<fs, ops, spc, retryVars>>

\* the while condition of process p is false
TwoLoopExit(p) ==
    /\ ctl.c[p].pc = "while"
    /\ ~LoopContinues(ctl.c[p].completed)
    /\ ctl' = [ctl EXCEPT !.c[p].pc = "done", !.c[p].exit_code = 0]
    /\ pre' = fs
    /\ UNCHANGED <<fs, ops, spc, retryVars>>

\* self.generate_batch(batch_num) of process p; the two processes run in the
\* same minutes and read the same clock
TwoGenerate(p) ==
    /\ ctl.c[p].pc = "while"
    /\ LoopContinues(ctl.c[p].completed)
    /\ \E domain_nums \in CtlDomainNums :
       \E r \in {generate_batch(fs, BatchSize, ctl.c[p].batch_num, domain_nums,
                                 RunClock(1, ctl.c[p].batch_num), OkEnv)} :
          /\ fs' = r.fs
          /\ ctl' = [ctl EXCEPT
                        !.c[p] = [IF r.ret.status = "ok"
                                  THEN [@ EXCEPT !.pc = "stage", !.stage = 1]
                                  ELSE AfterFailure(@)
                                     EXCEPT !.ids = @ \cup {ctl.c[p].batch_num},
                                            !.wrote = @ \cup FilesOf(r.ret)]]
    /\ pre' = fs
    /\ UNCHANGED <<ops, spc, retryVars>>

\* one stage of refine_batch_through_stages(batch_num) of process p
TwoRefineStage(p) ==
    /\ ctl.c[p].pc = "stage"
    /\ \E match \in FirstMatches(fs, ctl.c[p].batch_num, ctl.c[p].stage) :
       \E f1 \in {PrepareTempInput(fs, ctl.c[p].batch_num, ctl.c[p].stage, match)} :
       \E first \in FirstFiles(f1, TempInput(ctl.c[p].batch_num)) :
       \E r \in {refine_stage(fs, ctl.c[p].batch_num, ctl.c[p].stage, DefaultDelay,
                               OkEnv, match, first)} :
          /\ fs' = r.fs
          /\ ctl' = [ctl EXCEPT
                        !.c[p] = [IF r.ret.status # "ok" THEN AfterFailure(@)
                                  ELSE IF @.stage < RefinementStages
                                  THEN [@ EXCEPT !.stage = @ + 1]
                                  ELSE AfterBatch(@, r.fs)
                                     EXCEPT !.wrote = @ \cup FilesOf(r.ret)
                                                \cup {<<TempInput(ctl.c[p].batch_num),
                                                        BatchFileName(ctl.c[p].batch_num)>>}]]
    /\ pre' = fs
    /\ UNCHANGED <<ops, spc, retryVars>>

TwoNext ==
    \E p \in Controllers :
        \/ TwoRunStart(p)
        \/ TwoLoopExit(p)
        \/ TwoGenerate(p)
        \/ TwoRefineStage(p)

SpecTwo == TwoInit /\ [][TwoNext]_vars

\* ------------------------------------------------------------ retry: claims

\* the failure kinds the specification calls retry-worthy
RetryWorthy == {"RateLimitError", "APIError"}

RECURSIVE Pow(_, _)
Pow(b, n) == IF n = 0 THEN 1 ELSE b * Pow(b, n - 1)

\* the base delay in force before the i-th sleep
BaseDelay(i) == cfg.initial_delay * Pow(cfg.exponential_base, i - 1)

\* the script fails retry-worthily on invocations 1..r-1
FailsBefore(r) == \A i \in 1..(r - 1) : script[i].kind \in RetryWorthy

\* C1: against a call that raises RateLimitError on every invocation, the
\* wrapper with max_retries = m >= 1 invokes it exactly m times and then raises
\* the failure of the m-th invocation; and whenever the wrapper returns
\* normally, the value it returns is the one an invocation returned.
C1_RetryBound ==
    rpc = "done" =>
        /\ (/\ cfg.max_retries >= 1
            /\ \A i \in DOMAIN script : script[i].kind = "RateLimitError")
           => /\ out.status = "raised"
              /\ out.kind = "RateLimitError"
              /\ out.calls = cfg.max_retries
              /\ out.at = cfg.max_retries
        /\ out.status = "returned"
           => /\ out.at \in 1..out.calls
              /\ script[out.at].kind = "ok"
              /\ out.val = script[out.at].val

C1_Witness ==
    /\ rpc = "done"
    /\ cfg.max_retries = MaxRetries
    /\ \A i \in DOMAIN script : script[i].kind = "RateLimitError"
    /\ out.status = "raised"
    /\ out.calls = MaxRetries

\* C2: when invocations 1..r-1 fail retry-worthily and invocation r succeeds
\* (1 <= r <= max_retries), the wrapper returns the value of invocation r
\* after exactly r invocations, and the r-th invocation is the last thing it
\* does.
C2_ReturnsFirstSuccess ==
    rpc = "done" =>
        \A r \in 1..cfg.max_retries :
            (FailsBefore(r) /\ script[r].kind = "ok")
            => /\ out.status = "returned"
               /\ out.val = script[r].val
               /\ out.at = r
               /\ out.calls = r
               /\ out.events[Len(out.events)] = [ev |-> "call", n |-> r]
               /\ Cardinality({i \in DOMAIN out.events :
                                  out.events[i].ev = "call"}) = r

C2_Witness ==
    /\ rpc = "done"
    /\ cfg.max_retries = MaxRetries
    /\ script[1].kind = "RateLimitError"
    /\ script[2].kind = "APIError"
    /\ script[3].kind = "ok"
    /\ out.status = "returned"
    /\ out.calls = 3

C4_BackoffSchedule ==
    (rpc = "done" /\ ~cfg.jitter) =>
        /\ \A i \in DOMAIN out.slept : out.slept[i] = BaseDelay(i)
        /\ Len(out.slept) <= Max(0, cfg.max_retries - 1)
        /\ Len(out.slept) = out.calls - 1

C4_Witness ==
    /\ rpc = "done"
    /\ ~cfg.jitter
    /\ Len(out.slept) >= 2
    /\ script[1].kind = "RateLimitError"
    /\ script[2].kind = "APIError"

\* C5: with jitter enabled the i-th sleep lasts delay * (1 + U) for the base
\* delay in force and the U = randbelow(100) / 100 drawn for it, so at least
\* the base delay and less than twice it; the base delay carried on is
\* initial_delay * exponential_base^(number of sleeps), whatever was drawn.
C5_JitterRange ==
    (rpc = "done" /\ cfg.jitter) =>
        /\ \A i \in DOMAIN out.slept :
              /\ 100 * out.slept[i] = BaseDelay(i) * (100 + draws[i])
              /\ draws[i] \in 0..99
              /\ out.slept[i] >= BaseDelay(i)
              /\ out.slept[i] < 2 * BaseDelay(i)
        /\ out.delay = BaseDelay(Len(out.slept) + 1)

C5_Witness ==
    /\ rpc = "done"
    /\ cfg.jitter
    /\ Len(out.slept) >= 2
    /\ draws[1] = 99
    /\ draws[2] = 37
    /\ out.slept[1] > BaseDelay(1)

\* ------------------------------------------------------------ store: claims

\* the operation that ended last
LastOp == ops[Len(ops)]

\* the items a batch file holds: the length of a sequence, 1 for a bare record
DocSize(doc) == IF doc.tag = "array" THEN Len(doc.elems) ELSE 1

\* the j-th record of a batch file, as the members its text spells
DocMembers(doc, j) == IF doc.tag = "array" THEN doc.elems[j].members ELSE doc.members

\* the batch files of directory d of file system f
BatchFiles(f, d) == {n \in DOMAIN f[d].files : IsJsonName(n)}

\* every item of every batch file of d, as (file, position)
ItemsIn(f, d) ==
    UNION {{<<n, j>> : j \in 1..DocSize(f[d].files[n])} : n \in BatchFiles(f, d)}

\* C6: count_completed_propositions returns the number of items of the batch
\* files of responses/5, a bare record counting 1 and a sequence its length,
\* and 0 when responses/5 does not exist.
C6_CountItems ==
    (spc = "done" /\ LastOp.op = "count_completed_propositions") =>
        /\ LastOp.status = "ok"
        /\ fs["responses/5"].exists
           => LastOp.value = Cardinality(ItemsIn(fs, "responses/5"))
        /\ ~fs["responses/5"].exists => LastOp.value = 0

\* files of sizes 3, 1 (a bare record) and 4 count 8
C6_Witness ==
    /\ spc = "done"
    /\ LastOp.op = "count_completed_propositions"
    /\ LastOp.value = 8
    /\ BatchFiles(fs, "responses/5") = {InitNames[1], InitNames[2], InitNames[3]}
    /\ fs["responses/5"].files[InitNames[1]].tag = "object"
    /\ DocSize(fs["responses/5"].files[InitNames[2]]) = 3
    /\ DocSize(fs["responses/5"].files[InitNames[3]]) = 4

\* the items of the batch files of d whose names sort before name n
ItemsBefore(f, d, n) ==
    Cardinality({it \in ItemsIn(f, d) : StrLess(it[1], n)})

\* the returned record carries exactly the members the file spells
SameRecord(item, members) ==
    /\ item.py = "dict"
    /\ DOMAIN item.fields = {members[i][1] : i \in DOMAIN members}
    /\ \A i \in DOMAIN members : item.fields[members[i][1]] = members[i][2]

\* C7: load_propositions_from_folder returns the items of all batch files of
\* the directory: those of a file after those of every file whose name sorts
\* before it, each file's items in their order in the file, a bare record as
\* one item.
C7_LoadConcatenates ==
    (spc = "done" /\ LastOp.op = "load_propositions_from_folder"
        /\ LastOp.status = "ok") =>
        LET d == LastOp.args[1] IN
        /\ Len(LastOp.value) = Cardinality(ItemsIn(fs, d))
        /\ \A it \in ItemsIn(fs, d) :
              SameRecord(LastOp.value[ItemsBefore(fs, d, it[1]) + it[2]],
                         DocMembers(fs[d].files[it[1]], it[2]))

C7_Witness ==
    /\ spc = "done"
    /\ LastOp.op = "load_propositions_from_folder"
    /\ LastOp.status = "ok"
    /\ Len(ops) = 1
    /\ LET d == LastOp.args[1] IN
       /\ BatchFiles(fs, d) = {InitNames[1], InitNames[2], InitNames[3]}
       /\ fs[d].files[InitNames[2]].tag = "object"
       /\ Len(LastOp.value) = 6

\* the directory is missing or holds no batch file
NothingToLoad(f, d) == ~f[d].exists \/ BatchFiles(f, d) = {}

\* C8: load_propositions_from_folder raises FileNotFoundError on a directory
\* that is missing or holds no batch file; refine_batch on such an input
\* directory raises it too, having made no remote call, slept for no call,
\* created no directory and written no file.
C8_NotFound ==
    /\ (spc = "done" /\ LastOp.op = "load_propositions_from_folder"
            /\ NothingToLoad(fs, LastOp.args[1]))
       => LastOp.status = "FileNotFoundError"
    /\ (spc = "written" /\ LastOp.op = "refine_batch"
            /\ NothingToLoad(pre, LastOp.args[1]))
       => /\ LastOp.status = "FileNotFoundError"
          /\ LastOp.calls = 0
          /\ LastOp.naps = 0
          /\ LastOp.wrote = {}
          /\ fs = pre

\* refine_batch from a directory that holds only notes.txt into a missing one
C8_Witness ==
    /\ spc = "written"
    /\ LastOp.op = "refine_batch"
    /\ LastOp.status = "FileNotFoundError"
    /\ pre[LastOp.args[1]].exists
    /\ DOMAIN pre[LastOp.args[1]].files = {NotesName}
    /\ ~pre[LastOp.args[2]].exists

\* the document spells the list `data`: a sequence with one object per item,
\* in order, each object carrying the item's three fields
SpellsList(doc, data) ==
    /\ doc.tag = "array"
    /\ Len(doc.elems) = Len(data)
    /\ \A j \in DOMAIN data :
          /\ doc.elems[j].tag = "object"
          /\ SameRecord(data[j], doc.elems[j].members)
          /\ Len(doc.elems[j].members) = 3

\* C9: after generate_batch, refine_batch or save_batch has ended normally,
\* the file it wrote holds a sequence spelling exactly the list it was given
\* (whatever a file of that name held before, and also for a one-item list
\* and for items read from a bare record), and every other file is as it was.
C9_WritesSequence ==
    (spc = "written" /\ LastOp.status = "ok") =>
        /\ Cardinality(LastOp.wrote) = 1
        /\ \A w \in LastOp.wrote :
              /\ fs[w.dir].exists
              /\ w.name \in DOMAIN fs[w.dir].files
              /\ SpellsList(fs[w.dir].files[w.name], LastOp.data)
              /\ \A d \in Dirs :
                    /\ DOMAIN fs[d].files = DOMAIN pre[d].files
                                               \cup (IF d = w.dir THEN {w.name} ELSE {})
                    /\ \A n \in DOMAIN pre[d].files :
                          (d # w.dir \/ n # w.name) => fs[d].files[n] = pre[d].files[n]

\* refine_batch read one bare record and wrote over an older file
C9_Witness ==
    /\ spc = "written"
    /\ LastOp.op = "refine_batch"
    /\ LastOp.status = "ok"
    /\ Len(LastOp.data) = 1
    /\ \A n \in BatchFiles(pre, LastOp.args[1]) :
          pre[LastOp.args[1]].files[n].tag = "object"
    /\ \E w \in LastOp.wrote :
          /\ w.existed
          /\ pre[w.dir].files[w.name] # fs[w.dir].files[w.name]

\* the operation before the last one
PrevOp == ops[Len(ops) - 1]

\* C10: loading a directory whose only batch file was just written from a
\* list returns that list, record for record with the same proposition,
\* domain and timestamp; loading a directory whose only batch file holds one
\* bare record returns a one-element list holding that record.
C10_RoundTrip ==
    (spc = "done" /\ LastOp.op = "load_propositions_from_folder") =>
        LET d == LastOp.args[1] IN
        /\ (/\ Len(ops) = 2
            /\ PrevOp.status = "ok"
            /\ PrevOp.wrote # {}
            /\ \A w \in PrevOp.wrote : w.dir = d /\ BatchFiles(fs, d) = {w.name})
           => /\ LastOp.status = "ok"
              /\ LastOp.value = PrevOp.data
              /\ \A j \in DOMAIN PrevOp.data :
                    /\ LastOp.value[j].fields.proposition = PrevOp.data[j].fields.proposition
                    /\ LastOp.value[j].fields.domain = PrevOp.data[j].fields.domain
                    /\ LastOp.value[j].fields.timestamp = PrevOp.data[j].fields.timestamp
        /\ (/\ fs[d].exists
            /\ \E n \in BatchFiles(fs, d) :
                  BatchFiles(fs, d) = {n} /\ fs[d].files[n].tag = "object")
           => /\ LastOp.status = "ok"
              /\ Len(LastOp.value) = 1
              /\ \A n \in BatchFiles(fs, d) :
                    SameRecord(LastOp.value[1], fs[d].files[n].members)

\* a list of several records written by save_batch and loaded back
C10_Witness ==
    /\ spc = "done"
    /\ Len(ops) = 2
    /\ LastOp.op = "load_propositions_from_folder"
    /\ PrevOp.op = "save_batch"
    /\ PrevOp.status = "ok"
    /\ Len(PrevOp.data) >= 2
    /\ \A w \in PrevOp.wrote :
          w.dir = LastOp.args[1] /\ BatchFiles(fs, w.dir) = {w.name}
    /\ LastOp.value = PrevOp.data

\* the value a record's text gives key `key`: that of the key's last member
MemberValue(members, key) ==
    members[CHOOSE i \in DOMAIN members :
                /\ members[i][1] = key
                /\ \A j \in DOMAIN members : members[j][1] = key => j <= i][2]

\* the text the remote returns for a refinement of `text`, stripped
Refined(text) == [seed |-> text.seed, rev |-> text.rev + 1]

\* `dst` spells the transform of the record `src` spells: the refined text,
\* with the domain and the timestamp of src
IsTransformOf(dst, src) ==
    /\ MemberValue(dst, "proposition") = Refined(MemberValue(src, "proposition"))
    /\ MemberValue(dst, "domain") = MemberValue(src, "domain")
    /\ MemberValue(dst, "timestamp") = MemberValue(src, "timestamp")

\* the file the last operation wrote
WrittenDoc ==
    LET w == CHOOSE w \in LastOp.wrote : TRUE IN fs[w.dir].files[w.name]

\* C11: when refine_batch completes on input items i1..ik (the items of the
\* input directory in load order), the sequence it writes has length k, its
\* j-th item is the transform of the j-th input item for every j, and the
\* count it returns is k.
C11_OrderPreserved ==
    (spc = "written" /\ LastOp.op = "refine_batch" /\ LastOp.status = "ok") =>
        LET d == LastOp.args[1]
            k == Cardinality(ItemsIn(pre, d))
        IN  /\ LastOp.value = k
            /\ Cardinality(LastOp.wrote) = 1
            /\ WrittenDoc.tag = "array"
            /\ Len(WrittenDoc.elems) = k
            /\ \A it \in ItemsIn(pre, d) :
                  IsTransformOf(
                      WrittenDoc.elems[ItemsBefore(pre, d, it[1]) + it[2]].members,
                      DocMembers(pre[d].files[it[1]], it[2]))

\* four items in input files of different batches, refined into a directory
\* that did not exist
C11_Witness ==
    /\ spc = "written"
    /\ LastOp.op = "refine_batch"
    /\ LastOp.status = "ok"
    /\ LastOp.value = 4
    /\ BatchFiles(pre, LastOp.args[1]) = {InitNames[1], InitNames[2]}
    /\ ~pre[LastOp.args[2]].exists
    /\ MemberValue(WrittenDoc.elems[4].members, "proposition").rev = 1
    /\ MemberValue(WrittenDoc.elems[1].members, "proposition")
           # MemberValue(WrittenDoc.elems[4].members, "proposition")

\* C14: refine_batch on an input directory holding several batch files
\* writes, for each input batch file, the transforms of that file's items
\* under that file's name: an output directory that held no batch file holds
\* afterwards the same number of batch files as the input directory, under
\* the same names, each as long as its input file.
C14_OneOutputPerInputFile ==
    (/\ spc = "written"
     /\ LastOp.op = "refine_batch"
     /\ LastOp.status = "ok"
     /\ LastOp.args[1] # LastOp.args[2]
     /\ BatchFiles(pre, LastOp.args[2]) = {}) =>
        LET in == LastOp.args[1]
            outd == LastOp.args[2]
        IN  /\ BatchFiles(fs, outd) = BatchFiles(pre, in)
            /\ \A n \in BatchFiles(pre, in) :
                  /\ n \in BatchFiles(fs, outd)
                  /\ DocSize(fs[outd].files[n]) = DocSize(pre[in].files[n])
                  /\ \A j \in 1..DocSize(pre[in].files[n]) :
                        IsTransformOf(DocMembers(fs[outd].files[n], j),
                                      DocMembers(pre[in].files[n], j))

\* the transform of some input item fails for good during the last operation
SomeTransformFails ==
    LastOp.args[3].poison \in 1..Cardinality(ItemsIn(pre, LastOp.args[1]))

\* C15: if the transform of any item ultimately fails (the retry budget is
\* used up, or the failure is one that is not retried), refine_batch raises
\* that error and every directory holds exactly the files it held before the
\* call; when refine_batch does write, the file holds one transform for every
\* input item, never those of only some.
C15_AllOrNothing ==
    (spc = "written" /\ LastOp.op = "refine_batch"
        /\ ~NothingToLoad(pre, LastOp.args[1])) =>
        /\ SomeTransformFails
           => /\ LastOp.status = LastOp.args[3].how
              /\ LastOp.wrote = {}
              /\ \A d \in Dirs : fs[d].files = pre[d].files
        /\ LastOp.wrote # {}
           => /\ ~SomeTransformFails
              /\ LastOp.status = "ok"
              /\ Len(WrittenDoc.elems) = Cardinality(ItemsIn(pre, LastOp.args[1]))

\* the last of several transforms is rate limited until the budget of five
\* attempts is used up, after the earlier items were transformed
C15_Witness ==
    /\ spc = "written"
    /\ LastOp.op = "refine_batch"
    /\ Cardinality(ItemsIn(pre, LastOp.args[1])) >= 3
    /\ LastOp.args[3].poison = Cardinality(ItemsIn(pre, LastOp.args[1]))
    /\ LastOp.args[3].how = "RateLimitError"
    /\ LastOp.status = "RateLimitError"
    /\ LastOp.calls >= Cardinality(ItemsIn(pre, LastOp.args[1])) - 1 + 5
    /\ BatchFiles(pre, LastOp.args[2]) # {}
    /\ fs = pre

\* ------------------------------------------------------- controller: claims

\* the steps of the run so far that generated a batch or ran a stage
BatchSteps == {i \in DOMAIN ops : ops[i].op \in {"generate_batch", "refine_stage"}}

\* the steps that ran a stage
StageSteps == {i \in DOMAIN ops : ops[i].op = "refine_stage"}

\* the step raised an exception other than the operator's interrupt
Failed(i) == ops[i].status \notin {"ok", "KeyboardInterrupt"}

\* the stage directories from stage k on
StageDirsFrom(k) == {StageDir(j) : j \in k..RefinementStages}

\* C12: the stage transform leaves domain and timestamp as they are and
\* changes only the text, so that in every stage directory the item at
\* position j of batch b's file has the domain and the timestamp of the item
\* at position j of batch b's file in propositions.
C12_FieldsFollowBootstrap ==
    \A k \in 1..RefinementStages :
    \A n \in BatchFiles(fs, StageDir(k)) \cap BatchFiles(fs, "propositions") :
        LET staged == fs[StageDir(k)].files[n]
            raw == fs["propositions"].files[n]
        IN  /\ DocSize(staged) = DocSize(raw)
            /\ \A j \in 1..DocSize(raw) :
                  /\ MemberValue(DocMembers(staged, j), "domain")
                        = MemberValue(DocMembers(raw, j), "domain")
                  /\ MemberValue(DocMembers(staged, j), "timestamp")
                        = MemberValue(DocMembers(raw, j), "timestamp")

\* C13: a batch that generate_batch wrote to propositions under
\* batch_<id>.json is written under that same name to the directory of every
\* stage it completes, and the file is there afterwards.
C13_FilenameStable ==
    \A i \in StageSteps :
        ops[i].status = "ok" =>
            LET batch_num == ops[i].args[1]
                stage == ops[i].args[2]
            IN  /\ Cardinality(ops[i].wrote) = 1
                /\ \A w \in ops[i].wrote :
                      /\ w.dir = StageDir(stage)
                      /\ w.name = BatchFileName(batch_num)
                /\ BatchFileName(batch_num) \in FileNames(fs, StageDir(stage))
                /\ \E g \in 1..(i - 1) :
                      /\ ops[g].op = "generate_batch"
                      /\ ops[g].status = "ok"
                      /\ ops[g].args[1] = batch_num
                      /\ \A w \in ops[g].wrote :
                            w.dir = "propositions" /\ w.name = BatchFileName(batch_num)

\* batch 3, generated after an earlier batch failed, went through all five
\* stages and the run is done
C13_Witness ==
    /\ ctl.pc = "done"
    /\ \E i \in StageSteps : Failed(i)
    /\ \A k \in 1..RefinementStages :
          \E i \in StageSteps :
              /\ ops[i].status = "ok"
              /\ ops[i].args[1] = 3
              /\ ops[i].args[2] = k
              /\ BatchFileName(3) \in FileNames(fs, StageDir(k))


\* the batch a step of the run worked on
BatchOf(i) == ops[i].args[1]

\* step i wrote the file of batch batch_num to one of the directories ds
WroteBatchTo(i, batch_num, ds) ==
    \E w \in ops[i].wrote : w.name = BatchFileName(batch_num) /\ w.dir \in ds

\* the batches the run is through with and none of whose steps failed
Unfailed ==
    {b \in 1..(ctl.batch_num - 1) : \A i \in BatchSteps : BatchOf(i) = b => ~Failed(i)}

\* the file of the directory d holds exactly the list `data`
HoldsList(d, name, data) ==
    /\ name \in FileNames(fs, d)
    /\ fs[d].files[name] = JsonDump(PyList(data))

\* C16: if stage k of batch b fails for good, no step of that run writes a
\* file of batch b to any of the stage directories k..5, and a file of b
\* found there is one the run found at its start, unchanged; every batch the
\* run is through with and that did not fail, before b or after b, has its
\* batch_size items in the terminal directory.
C16_FailureIsolation ==
    /\ \A i \in StageSteps :
          Failed(i) =>
              LET b == BatchOf(i)
                  k == ops[i].args[2]
              IN  /\ \A j \in DOMAIN ops :
                        ~WroteBatchTo(j, b, StageDirsFrom(k))
                  /\ \A d \in StageDirsFrom(k) :
                        BatchFileName(b) \in FileNames(fs, d) =>
                            /\ BatchFileName(b) \in FileNames(ctl.found, d)
                            /\ fs[d].files[BatchFileName(b)]
                                  = ctl.found[d].files[BatchFileName(b)]
    /\ (ctl.pc \in {"while", "stage", "done", "exited"}) =>
          \A b \in Unfailed :
              \E i \in StageSteps :
                  /\ BatchOf(i) = b
                  /\ ops[i].args[2] = RefinementStages
                  /\ ops[i].status = "ok"
                  /\ Len(ops[i].data) = BatchSize
                  /\ HoldsList(StageDir(RefinementStages), BatchFileName(b), ops[i].data)

\* batch 2 failed at stage 2: it is in responses/1 and in no later stage
\* directory, and batches 1 and 3 are in the terminal directory
C16_Witness ==
    /\ ctl.pc = "done"
    /\ ctl.found \in EarlierBatches(0)
    /\ \E i \in StageSteps : Failed(i) /\ BatchOf(i) = 2 /\ ops[i].args[2] = 2
    /\ BatchFileName(2) \in FileNames(fs, StageDir(1))
    /\ \A d \in StageDirsFrom(2) : BatchFileName(2) \notin FileNames(fs, d)
    /\ {BatchFileName(1), BatchFileName(3)} \subseteq FileNames(fs, StageDir(5))
    /\ Unfailed = {1, 3}

\* C17: an exception other than the operator's interrupt, raised while batch
\* b is generated or refined, does not end run: the controller is back at
\* the head of its loop with batch id b + 1 and the loop goes on, and no later
\* step works on b; run returns only with progress >= target and the process
\* exits from run only on an interrupt.
C17_FailureContinues ==
    /\ ctl.pc \in {"init", "init_failed", "start", "while", "stage", "done", "exited"}
    /\ (ops # <<>> /\ LastOp.op \in {"generate_batch", "refine_stage"}
            /\ LastOp.status # "ok") =>
          /\ ctl.pc = "while"
          /\ ctl.batch_num = LastOp.args[1] + 1
          /\ LoopContinues(ctl.completed)
    /\ \A i \in BatchSteps :
          Failed(i) =>
              /\ ctl.batch_num > BatchOf(i)
              /\ \A j \in BatchSteps : j > i => BatchOf(j) > BatchOf(i)
    /\ ctl.pc = "done" => ctl.completed >= TargetTotal
    /\ ctl.pc = "exited" => LastOp.op = "interrupt"

\* batch 1 failed at stage 3 by a rate limit that did not end, and the
\* controller is refining batch 2
C17_Witness ==
    /\ ctl.pc = "stage"
    /\ ctl.batch_num = 2
    /\ ctl.stage >= 2
    /\ \E i \in StageSteps :
          /\ BatchOf(i) = 1
          /\ ops[i].args[2] = 3
          /\ ops[i].status = "RateLimitError"


\* C18: whenever the controller measures progress >= target, at the start of
\* run or after a batch, its next step is the one to Done, which changes no
\* directory and no file and adds no step to the run; a run started over
\* directories whose terminal count is >= target measures it without a
\* remote call or a write, so that it ends with all directories as it found
\* them.
C18_IdempotentResume ==
    [][/\ (ctl.pc = "while" /\ ctl.completed >= TargetTotal) =>
             (ctl'.pc = "done" /\ fs' = fs /\ ops' = ops)
       /\ (ctl.pc = "start" /\ count_completed_propositions(fs) >= TargetTotal) =>
             /\ ctl'.pc = "while"
             /\ ctl'.completed >= TargetTotal
             /\ fs' = ctl.found
             /\ Len(ops') = 1
             /\ ops'[1].calls = 0 /\ ops'[1].naps = 0 /\ ops'[1].wrote = {}
      ]_vars

\* started over the directories of a run that reached the target: Done with
\* the count as the only step and the directories as found
C18_Witness ==
    /\ ctl.pc = "done"
    /\ Len(ops) = 1
    /\ LastOp.op = "count_completed_propositions"
    /\ LastOp.value >= TargetTotal
    /\ BatchFiles(ctl.found, "responses/5") # {}
    /\ fs = ctl.found

\* C19: a controller restarted over the directories an earlier run left below
\* the target does not generate again, nor run a stage of, a batch whose file
\* the terminal directory already held, and counts every terminal item once.
C19_ResumeSkipsTerminalBatches ==
    /\ \A i \in BatchSteps :
          BatchFileName(BatchOf(i)) \notin FileNames(ctl.found, "responses/5")
    /\ ctl.pc \in {"while", "stage", "done"} =>
          ctl.completed <= Cardinality(ItemsIn(fs, "responses/5"))

\* C20: a batch file of the terminal directory stays: one the run found at its
\* start, and one a stage 5 of the run wrote, is there in every later state
\* with the items it had.
C20_TerminalFilesPermanent ==
    /\ \A n \in FileNames(ctl.found, "responses/5") :
          /\ n \in FileNames(fs, "responses/5")
          /\ fs["responses/5"].files[n] = ctl.found["responses/5"].files[n]
    /\ \A i \in StageSteps :
          (ops[i].status = "ok" /\ ops[i].args[2] = RefinementStages) =>
              HoldsList("responses/5", BatchFileName(BatchOf(i)), ops[i].data)

\* the terminal directory
TerminalDir == StageDir(RefinementStages)

\* C21: a batch is in the terminal directory with all its batch_size items or
\* not at all: every file there is a list of batch_size items, the terminal
\* count is batch_size times the number of files, the progress the controller
\* holds is a whole number of batches, and a stage 5 that fails writes nothing.
C21_WholeBatchesOnly ==
    /\ \A n \in FileNames(fs, TerminalDir) :
          /\ fs[TerminalDir].files[n].tag = "array"
          /\ DocSize(fs[TerminalDir].files[n]) = BatchSize
    /\ count_completed_propositions(fs)
          = BatchSize * Cardinality(FileNames(fs, TerminalDir))
    /\ ctl.completed % BatchSize = 0
    /\ \A i \in StageSteps :
          (ops[i].args[2] = RefinementStages /\ Failed(i)) =>
              /\ ops[i].wrote = {}
              /\ (BatchFileName(BatchOf(i)) \in FileNames(fs, TerminalDir) =>
                     BatchFileName(BatchOf(i)) \in FileNames(ctl.found, TerminalDir))

\* stage 5 of batch 1 failed at its last item, the items before it refined;
\* batch 2 is in the terminal directory and batch 1 is not
C21_Witness ==
    /\ ctl.found \in EarlierBatches(0)
    /\ \E i \in StageSteps :
          /\ BatchOf(i) = 1
          /\ ops[i].args[2] = RefinementStages
          /\ ops[i].status = "RateLimitError"
          /\ ops[i].calls > DefaultConfig.max_retries
    /\ FileNames(fs, TerminalDir) = {BatchFileName(2)}
    /\ ctl.completed = BatchSize

\* C22: a stage k the controller completes for batch b was handed b's own
\* file of stage k-1 (of propositions for k = 1): the file it wrote is the
\* list, position by position, of the transforms of the items of the file of
\* the same name in the directory before.
C22_StageReadsOwnBatch ==
    (ops # <<>> /\ LastOp.op = "refine_stage" /\ LastOp.status = "ok") =>
        LET b == LastOp.args[1]
            k == LastOp.args[2]
            name == BatchFileName(b)
            src == pre[SourceFolder(k)].files[name]
            dst == fs[StageDir(k)].files[name]
        IN  /\ name \in FileNames(pre, SourceFolder(k))
            /\ name \in FileNames(fs, StageDir(k))
            /\ dst.tag = "array"
            /\ DocSize(dst) = DocSize(src)
            /\ \A j \in 1..DocSize(src) :
                  IsTransformOf(DocMembers(dst, j), DocMembers(src, j))

\* the steps of the run so far that generated a batch
GenerateSteps == {i \in DOMAIN ops : ops[i].op = "generate_batch"}

\* C23: the batch ids the controller hands out are fresh and ascend one by
\* one: each generation uses the id after that of the generation before it,
\* whether that batch completed or failed; the steps of the run work on
\* batches in ascending id order, each stage on the batch generated last; and
\* the id of a generated batch is that of no other batch, none of the run and
\* none whose file the run found in propositions.
C23_FreshBatchIds ==
    /\ \A i \in GenerateSteps :
          /\ (\A j \in GenerateSteps : j < i => BatchOf(j) < BatchOf(i))
          /\ (\A j \in GenerateSteps :
                 (j < i /\ \A h \in GenerateSteps : ~(j < h /\ h < i)) =>
                     BatchOf(i) = BatchOf(j) + 1)
          /\ BatchFileName(BatchOf(i)) \notin FileNames(ctl.found, "propositions")
    /\ \A i \in StageSteps :
          /\ i > 1
          /\ ops[i - 1].op \in {"generate_batch", "refine_stage"}
          /\ ops[i - 1].status = "ok"
          /\ BatchOf(i - 1) = BatchOf(i)
    /\ ctl.pc = "stage" =>
          (LastOp.op \in {"generate_batch", "refine_stage"}
              /\ BatchOf(Len(ops)) = ctl.batch_num)

\* the directories batch files are written to
BatchDirs == {"propositions"} \cup StageDirsFrom(1)

C29_MissingCredentialFailsFirst ==
    /\ ctl.pc = "init_failed" =>
          /\ ~ctl.api_key
          /\ ctl.exit_code # 0 /\ ctl.exit_code # -1
          /\ fs = ctl.found
          /\ ops = <<>>
    /\ (ctl.pc \notin {"init", "init_failed"}) => ctl.api_key

\* the credential was missing in an empty working directory: no folder exists
C29_Witness ==
    /\ ctl.pc = "init_failed"
    /\ fs = NothingOnDisk
    /\ \A d \in CtlDirs : ~DirExists(fs, d)

\* C25: a run that is not interrupted, and in which the remote lets batches
\* succeed again after the batches that fail, reaches Done with the terminal
\* count at or above the target.
C25_RunReachesDone ==
    (ctl.pc = "start") ~>
        (/\ ctl.pc = "done"
         /\ ctl.completed >= TargetTotal
         /\ count_completed_propositions(fs) >= TargetTotal)

\* Done at the target in a working directory that was empty, after a batch
\* that failed
C25_Witness ==
    /\ ctl.pc = "done"
    /\ ctl.found \in EarlierBatches(0)
    /\ ctl.failures > 0
    /\ \E i \in BatchSteps : Failed(i)
    /\ count_completed_propositions(fs) >= TargetTotal

\* C26: at the head of every iteration of the loop, after a batch that
\* completed and after one that failed alike, the progress the controller
\* compares with the target is the number of items the terminal directory
\* holds at that moment.
C26_ProgressIsDiskCount ==
    ctl.pc = "while" =>
        /\ ctl.completed = count_completed_propositions(fs)
        /\ ctl.completed = Cardinality(ItemsIn(fs, TerminalDir))

\* at the head of the loop after stage 5 of a batch failed, an earlier batch
\* of this run being in the terminal directory
C26_Witness ==
    /\ ctl.pc = "while"
    /\ ops # <<>>
    /\ LastOp.op = "refine_stage"
    /\ LastOp.args[2] = RefinementStages
    /\ LastOp.status \notin {"ok", "KeyboardInterrupt"}
    /\ ctl.completed = BatchSize
    /\ \E i \in StageSteps : ops[i].status = "ok" /\ ops[i].args[2] = RefinementStages

\* step i completed and wrote the file of batch batch_num to directory d,
\* which holds the batch_size items it wrote
Persisted(i, batch_num, d) ==
    /\ ops[i].status = "ok"
    /\ BatchOf(i) = batch_num
    /\ Len(ops[i].data) = BatchSize
    /\ ops[i].wrote # {}
    /\ \A w \in ops[i].wrote : w.dir = d /\ w.name = BatchFileName(batch_num)

\* C27: stage 1 of a batch starts only when the step before it generated all
\* batch_size items of that batch and wrote its file to propositions, and
\* stage k+1 only when the step before it was stage k of that batch, completed
\* and its file written; when a stage is about to start, the file it reads is
\* in the directory before.
C27_StagesInOrder ==
    /\ \A i \in StageSteps :
          LET b == BatchOf(i)
              k == ops[i].args[2]
          IN  /\ i > 1
              /\ IF k = 1
                 THEN ops[i - 1].op = "generate_batch"
                          /\ Persisted(i - 1, b, "propositions")
                 ELSE ops[i - 1].op = "refine_stage"
                          /\ ops[i - 1].args[2] = k - 1
                          /\ Persisted(i - 1, b, StageDir(k - 1))
    /\ ctl.pc = "stage" =>
          /\ ctl.stage \in 1..RefinementStages
          /\ Persisted(Len(ops), ctl.batch_num, SourceFolder(ctl.stage))
          /\ LastOp.op = IF ctl.stage = 1 THEN "generate_batch" ELSE "refine_stage"
          /\ HoldsList(SourceFolder(ctl.stage), BatchFileName(ctl.batch_num),
                       LastOp.data)

\* stage 5 of batch 2 ran after its stage 4, in a run where batch 1 failed
C27_Witness ==
    /\ ops # <<>>
    /\ LastOp.op = "refine_stage"
    /\ LastOp.args[1] = 2
    /\ LastOp.args[2] = RefinementStages
    /\ \E i \in BatchSteps : Failed(i) /\ BatchOf(i) = 1
    /\ \A k \in 1..RefinementStages :
          BatchFileName(2) \in FileNames(pre, SourceFolder(k))

\* C28: two controllers that run at once in the same directories never work
\* on the same batch id, and no batch file and no file of a temporary input
\* folder is written by both.
C28_OneWriterPerBatchFile ==
    /\ ctl.c[1].ids \cap ctl.c[2].ids = {}
    /\ ctl.c[1].wrote \cap ctl.c[2].wrote = {}

\* the trace of the requests of the loop that ran last
Trace == out.loop.events

\* the events that are invocations of the remote
CallsIn(tr) == {i \in DOMAIN tr : tr[i].ev = "call"}

\* the events of kind ev strictly between positions i and j
Between(tr, i, j, ev) == {h \in DOMAIN tr : i < h /\ h < j /\ tr[h].ev = ev}

\* C30: each logical request of a refinement loop or of a generation loop
\* begins, when the delay is > 0, with one sleep of the delay right before
\* its first attempt, and there is no other sleep of the delay; between two
\* successive attempts of one request there is exactly one backoff sleep and
\* no sleep of the delay. With a delay of 0 no such sleep is taken.
C30_DelayOncePerRequest ==
    rpc = "looped" =>
        /\ \A i \in CallsIn(Trace) :
              Trace[i].n = 1 =>
                  IF out.delay > 0
                  THEN i > 1 /\ Trace[i - 1] = [ev |-> "nap", n |-> out.delay]
                  ELSE i = 1 \/ Trace[i - 1].ev # "nap"
        /\ \A i \in DOMAIN Trace :
              Trace[i].ev = "nap" =>
                  /\ out.delay > 0
                  /\ i < Len(Trace)
                  /\ Trace[i + 1] = [ev |-> "call", n |-> 1]
        /\ \A i, j \in CallsIn(Trace) :
              (i < j /\ Between(Trace, i, j, "call") = {}) =>
                  IF Trace[j].n = 1
                  THEN Between(Trace, i, j, "sleep") = {}
                  ELSE /\ Trace[j].n = Trace[i].n + 1
                       /\ Cardinality(Between(Trace, i, j, "sleep")) = 1
                       /\ Between(Trace, i, j, "nap") = {}
        /\ out.loop.naps = Cardinality({i \in DOMAIN Trace : Trace[i].ev = "nap"})
        /\ out.loop.calls = Cardinality(CallsIn(Trace))

\* three propositions refined with the default delay, each request failing
\* once before it is answered: three sleeps of the delay, six invocations
C30_Witness ==
    /\ rpc = "looped"
    /\ out.op = "refine"
    /\ out.delay = DefaultDelay
    /\ out.loop.status = "ok"
    /\ Len(out.loop.refined) = 3
    /\ out.loop.naps = 3
    /\ out.loop.calls = 6
    /\ Cardinality(Between(Trace, 0, Len(Trace) + 1, "sleep")) = 3

\* ------------------------------------------------------ retry: more claims

\* where in out.events the events of one sort are
EventsOf(sort) == {i \in DOMAIN out.events : out.events[i].ev = sort}

\* C31: the wrapper sleeps only between attempts: a run of a invocations has
\* exactly a - 1 sleeps; each sleep comes right after one warning that names
\* its duration, which comes right after a failed invocation, and the next
\* invocation follows the sleep; nothing sleeps after the last invocation,
\* failed or successful.
C31_SleepsOnlyBetweenAttempts ==
    rpc = "done" =>
        /\ Cardinality(EventsOf("call")) = out.calls
        /\ Cardinality(EventsOf("sleep")) = out.calls - 1
        /\ Cardinality(EventsOf("warn")) = out.calls - 1
        /\ Len(out.slept) = out.calls - 1
        /\ \A i \in EventsOf("sleep") :
              /\ i >= 3
              /\ out.events[i - 1] = [ev |-> "warn", n |-> out.events[i].n]
              /\ out.events[i - 2].ev = "call"
              /\ script[out.events[i - 2].n].kind \in RetryWorthy
              /\ i < Len(out.events)
              /\ out.events[i + 1].ev = "call"
        /\ \A i \in EventsOf("call") :
              out.events[i].n = out.calls
              => \A j \in (i + 1)..Len(out.events) : out.events[j].ev = "error"

C31_Witness ==
    /\ rpc = "done"
    /\ cfg.max_retries = MaxRetries
    /\ script[1].kind = "APIError"
    /\ script[2].kind = "RateLimitError"
    /\ script[3].kind = "RateLimitError"
    /\ out.status = "raised"
    /\ Cardinality(EventsOf("sleep")) = MaxRetries - 1
    /\ out.events[Len(out.events)].ev = "error"

\* the invocations whose failure was retried: a retry-worthy failure of either
\* kind that did not use up the last attempt
RetriedFailures ==
    {i \in 1..out.calls :
        script[i].kind \in RetryWorthy /\ i < Max(1, cfg.max_retries)}

\* one delay for both kinds: each retried failure, of either kind, multiplied
\* the base delay by exponential_base once
OneDelay ==
    /\ Len(out.slept) = Cardinality(RetriedFailures)
    /\ out.delay = cfg.initial_delay
                     * Pow(cfg.exponential_base, Cardinality(RetriedFailures))
    /\ \A i \in DOMAIN out.slept :
          out.slept[i] = ActualDelay(cfg, BaseDelay(i), draws[i])

\* C32 as stated: for any interleaving of the two failure kinds the wrapped
\* call is invoked at most max_retries times in total, and the base delay is
\* multiplied by the base after every retried failure regardless of its kind.
C32_SharedBudget_AsStated ==
    rpc = "done" =>
        /\ out.calls <= cfg.max_retries
        /\ OneDelay

\* C32: for any interleaving of the two failure kinds the wrapped call is
\* invoked at most max(1, max_retries) times in total (max_retries = 0 still
\* makes the one call after the loop); a RateLimitError or APIError reaches the
\* caller only from the invocation that uses up that budget; and the base
\* delay is multiplied by the base after every retried failure regardless of
\* its kind.
C32_SharedBudget ==
    rpc = "done" =>
        /\ out.calls <= Max(1, cfg.max_retries)
        /\ (out.status = "raised" /\ out.kind \in RetryWorthy)
           => out.calls = Max(1, cfg.max_retries)
        /\ OneDelay

C32_Witness ==
    /\ rpc = "done"
    /\ cfg.max_retries = MaxRetries
    /\ cfg.jitter
    /\ script[1].kind = "RateLimitError"
    /\ script[2].kind = "APIError"
    /\ script[3].kind = "RateLimitError"
    /\ out.calls = MaxRetries
    /\ Len(out.slept) = 2
    /\ out.delay = cfg.initial_delay * cfg.exponential_base * cfg.exponential_base

\* C37: for max_retries >= 1 the wrapper never gets to the call placed after
\* the retry loop; for max_retries = 0 that call is the only invocation, it is
\* outside every try statement, and what it returns or raises goes to the
\* caller as it is, with no sleep, no warning and no error line; so the
\* wrapped call is invoked at most max(1, max_retries) times for every
\* configuration.
C37_CallAfterLoop ==
    rpc = "done" =>
        /\ cfg.max_retries >= 1 => ~out.after_loop
        /\ cfg.max_retries = 0
           => /\ out.after_loop
              /\ out.calls = 1
              /\ out.at = 1
              /\ out.kind = script[1].kind
              /\ out.val = script[1].val
              /\ out.status = (IF script[1].kind = "ok" THEN "returned" ELSE "raised")
              /\ out.slept = <<>>
              /\ out.log = <<>>
              /\ out.events = <<[ev |-> "call", n |-> 1]>>
        /\ out.calls >= 1
        /\ out.calls <= Max(1, cfg.max_retries)

C37_Witness ==
    /\ rpc = "done"
    /\ cfg.max_retries = 0
    /\ script[1].kind = "RateLimitError"
    /\ out.status = "raised"
    /\ out.kind = "RateLimitError"
    /\ out.after_loop
    /\ out.calls = 1

\* ------------------------------------------------- controller: more claims

\* the run found no file: the working directory was empty when the process
\* started, or held only the empty folders of an earlier start
FromEmpty == ctl.found \in {NothingOnDisk} \cup EarlierBatches(0)

\* the file `name` is in directory d with as many items as file `doc` holds
SameSizeIn(d, name, doc) ==
    /\ name \in FileNames(fs, d)
    /\ DocSize(fs[d].files[name]) = DocSize(doc)

\* C33: in a run started from empty directories, at every moment, a file in
\* stage directory k (1 <= k <= 5) is the file of a batch of this run, and a
\* file of the same name with the same number of items is in the directory of
\* stage k-1 (propositions for k = 1) and in propositions; and a stage k that
\* completed for a batch came after that batch was generated and completed
\* each of the stages 1..k-1, in this order.
C33_StagePrefix ==
    FromEmpty =>
        /\ \A k \in 1..RefinementStages :
           \A name \in FileNames(fs, StageDir(k)) :
              /\ \E i \in GenerateSteps :
                    ops[i].status = "ok" /\ name = BatchFileName(BatchOf(i))
              /\ SameSizeIn(SourceFolder(k), name, fs[StageDir(k)].files[name])
              /\ SameSizeIn("propositions", name, fs[StageDir(k)].files[name])
        /\ \A i \in StageSteps :
              ops[i].status = "ok" =>
                  /\ \E g \in GenerateSteps :
                        g = i - ops[i].args[2]
                            /\ ops[g].status = "ok" /\ BatchOf(g) = BatchOf(i)
                  /\ \A k \in 1..(ops[i].args[2] - 1) :
                        LET h == i - ops[i].args[2] + k
                        IN  /\ h \in StageSteps
                            /\ ops[h].status = "ok"
                            /\ BatchOf(h) = BatchOf(i)
                            /\ ops[h].args[2] = k

\* started with nothing on disk: batch 1 failed in stage 3 and its files stay
\* in propositions and in the directories of stages 1 and 2 only; batch 2 is
\* in every directory
C33_Witness ==
    /\ fs # ctl.found
    /\ ctl.found = setup_folders(NothingOnDisk)
    /\ \E i \in StageSteps : Failed(i) /\ BatchOf(i) = 1 /\ ops[i].args[2] = 3
    /\ \A k \in 1..2 : BatchFileName(1) \in FileNames(fs, StageDir(k))
    /\ \A k \in 3..RefinementStages : BatchFileName(1) \notin FileNames(fs, StageDir(k))
    /\ \A k \in 1..RefinementStages : BatchFileName(2) \in FileNames(fs, StageDir(k))

\* the steps that completed the last stage of a batch: the successful batches
SuccessfulBatches ==
    {i \in StageSteps : ops[i].args[2] = RefinementStages /\ ops[i].status = "ok"}

\* the terminal count is batch_size for each successful batch of the run,
\* whatever failed between them, and at Done the run has had exactly
\* ceil(target / batch_size) successful batches
CountIsWholeBatches ==
    FromEmpty =>
        /\ count_completed_propositions(fs)
              = BatchSize * Cardinality(SuccessfulBatches)
        /\ ctl.pc = "done" =>
              /\ Cardinality(SuccessfulBatches) = BatchesNeeded
              /\ TargetTotal <= count_completed_propositions(fs)
              /\ count_completed_propositions(fs) < TargetTotal + BatchSize

\* C34: in a run started from empty directories the terminal count is
\* n * batch_size after n successful and any number of failed batches; no step
\* of the run makes it smaller; and the run reaches Done, after exactly
\* ceil(target / batch_size) successful batches, with
\* target <= count < target + batch_size.
C34_CountGrowsByBatches ==
    /\ []CountIsWholeBatches
    /\ [][FromEmpty => count_completed_propositions(fs')
                           >= count_completed_propositions(fs)]_vars
    /\ (FromEmpty /\ ctl.pc = "start")
          ~> (/\ ctl.pc = "done"
              /\ Cardinality(SuccessfulBatches) = BatchesNeeded)

\* Done in a working directory that was empty, after two successful batches
\* and one that failed in between or before
C34_Witness ==
    /\ ctl.pc = "done"
    /\ FromEmpty
    /\ Cardinality(SuccessfulBatches) = BatchesNeeded
    /\ Cardinality({i \in BatchSteps : Failed(i)}) = MaxFailures
    /\ ctl.batch_num = BatchesNeeded + MaxFailures + 1
    /\ count_completed_propositions(fs) = BatchSize * BatchesNeeded

\* the temporary input folders
TempDirs == {TempNames[b] : b \in DOMAIN TempNames}

\* C35: whenever the controller is at the head of its loop, between two
\* batches, no temp_input_<id> folder exists: the temporary input folder of a
\* stage is gone whether the stage completed or failed. (Stated for a run
\* that started from empty directories, so that every folder it speaks of is
\* one this run made.)
C35_NoTempInputBetweenBatches ==
    (FromEmpty /\ ctl.pc = "while") => \A d \in TempDirs : ~DirExists(fs, d)

\* C36: generation of a batch is all-or-nothing. A generation that fails at
\* any of its items writes no file and changes no directory, no stage is run
\* for its batch, the file of its batch is in propositions only if the run
\* found it there (and is then as found), and the step after it works on the
\* next batch id; a generation that completes writes the one file of its
\* batch, with batch_size items. Right after a failed generation the
\* controller is at the head of its loop with the next batch id.
C36_GenerationAllOrNothing ==
    /\ \A i \in GenerateSteps :
          IF Failed(i)
          THEN /\ ops[i].wrote = {}
               /\ ops[i].data = <<>>
               /\ \A j \in StageSteps : BatchOf(j) # BatchOf(i)
               /\ \A n \in {BatchFileName(BatchOf(i))} \cap FileNames(fs, "propositions") :
                     /\ n \in FileNames(ctl.found, "propositions")
                     /\ fs["propositions"].files[n] = ctl.found["propositions"].files[n]
               /\ i < Len(ops) => BatchOf(i + 1) = BatchOf(i) + 1
          ELSE /\ ops[i].wrote
                     = {[dir |-> "propositions", name |-> BatchFileName(BatchOf(i)),
                         existed |-> w.existed] : w \in ops[i].wrote}
               /\ ops[i].wrote # {}
               /\ Len(ops[i].data) = BatchSize
    /\ (ops # <<>> /\ LastOp.op = "generate_batch" /\ Failed(Len(ops))) =>
          /\ fs = pre
          /\ ctl.pc = "while"
          /\ ctl.stage = 0
          /\ ctl.batch_num = LastOp.args[1] + 1

\* the last item of batch 1 was rate limited until the retries were used up,
\* after the items before it had been generated: nothing is on disk and the
\* controller is about to start batch 2
C36_Witness ==
    /\ ops # <<>>
    /\ LastOp.op = "generate_batch"
    /\ LastOp.status = "RateLimitError"
    /\ LastOp.args = <<1>>
    /\ LastOp.calls = (BatchSize - 1) + DefaultConfig.max_retries
    /\ FileNames(fs, "propositions") = {}
    /\ \A k \in 1..RefinementStages : DirExists(fs, StageDir(k))
    /\ ctl.pc = "while"
    /\ ctl.batch_num = 2

====
